---- MODULE Spec2Model ----
(***************************************************************************)
(* Faculty portal (src/app.py): the Flask request handlers as a state      *)
(* machine over the MySQL tables they read and write and the per-browser   *)
(* session cookie.  One action per handler; every request runs to its      *)
(* response in one step (requests are synchronous, connections autocommit).*)
(***************************************************************************)
EXTENDS Integers, Sequences, FiniteSets, TLC

VARIABLES
    users,      \* table users: set of rows
    faculty,    \* table faculty: set of rows
    pubs,       \* the four publication tables: kind -> set of rows
    nextId,     \* AUTO_INCREMENT counters: table -> next id
    session,    \* Flask session per browser: client -> session record
    resp,       \* the response to the last request
    inflight,   \* requests between two of their steps: client -> position
    conns       \* connections opened by get_db_connection and not closed

vars == <<users, faculty, pubs, nextId, session, resp, inflight, conns>>

(***************************************************************************)
(* Bounds of the model                                                     *)
(***************************************************************************)
MaxUserId == 3       \* ids handed out by the users table
MaxFacultyId == 2    \* ids handed out by the faculty table
MaxPubId == 1        \* publication rows inserted over a run, all kinds together
MaxQualId == 1       \* ids handed out by the qualifications table
MaxOpenConns == 2    \* connections left open over a run

Clients == {"c1", "c2"}
Emails == {"a", "b"}
Kinds == {"journal", "conference", "book_chapter", "patent"}
\* The tables whose rows carry a faculty_id: the publication tables and
\* qualifications
ChildTables == Kinds \cup {"qualification"}

\* session.get(key) on a key the session does not hold
Absent == "<absent>"

\* Stored role tokens: the canonical ones, legacy aliases, an unmapped one.
RoleTokens ==
    {"IQAC", "Office", "Faculty", "admin", "Admin", "IQAC(admin)",
     "editor", "Editor", "viewer", "Viewer", "Guest"}

(***************************************************************************)
(* Session and role helpers                                                *)
(***************************************************************************)
\* session.clear(): no key is left
EmptySession ==
    [logged_in |-> FALSE, user_id |-> 0, username |-> Absent,
     email |-> Absent, role |-> Absent]

\* get_user_role with the capitalised aliases missing from role_mapping
get_user_role_lowercase(s) ==
    LET role == IF s.role = Absent THEN "Faculty" ELSE s.role
    IN  CASE role \in {"admin", "IQAC(admin)"} -> "IQAC"
          [] role = "editor" -> "Office"
          [] role = "viewer" -> "Faculty"
          [] OTHER -> role

\* get_user_role(): session.get('role', 'Faculty') through role_mapping.get(role, role)
get_user_role(s) ==
    LET role == IF s.role = Absent THEN "Faculty" ELSE s.role
    IN  CASE role \in {"admin", "Admin", "IQAC(admin)"} -> "IQAC"
          [] role \in {"editor", "Editor"} -> "Office"
          [] role \in {"viewer", "Viewer"} -> "Faculty"
          [] OTHER -> role

\* session.get('email', '')
SessionEmail(s) == IF s.email = Absent THEN "" ELSE s.email

can_edit_faculty(s) == get_user_role(s) \in {"IQAC", "Office"}
can_delete_faculty(s) == get_user_role(s) = "IQAC"
can_add_faculty(s) == get_user_role(s) \in {"IQAC", "Office"}

\* login_required: the wrapped handler runs only with session['logged_in'] truthy
LoggedIn(c) == session[c].logged_in

Response(op, c, outcome, target, rows) ==
    [op |-> op, client |-> c, outcome |-> outcome, target |-> target, rows |-> rows]

\* login_required's redirect('/login'): nothing else happens
LoginRedirect(op, c, target) ==
    /\ ~LoggedIn(c)
    /\ resp' = Response(op, c, "login_required", target, {})
    /\ UNCHANGED <<users, faculty, pubs, nextId, session>>

\* No request is between two of its steps and no connection is open
NotInFlight == [pc |-> "idle"]
Quiescent ==
    /\ inflight = [c \in Clients |-> NotInFlight]
    /\ conns = 0

\* A request that a specification runs in one step, start to response: it is
\* never seen in flight, and the specification does not follow its connections
Sequential == UNCHANGED <<inflight, conns>>

RowWith(table, id) == {r \in table : r.id = id}
Ids(table) == {r.id : r \in table}

(***************************************************************************)
(* Authentication and user management                                      *)
(***************************************************************************)
UserIds == 1 .. MaxUserId

\* The account the deployment starts with: an approved administrator whose
\* stored role is the legacy token 'admin'.
SeedAdmin ==
    [id |-> 1, username |-> "u", email |-> "a", password_hash |-> "p",
     role |-> "admin", approved |-> TRUE, last_login |-> FALSE]

\* login with the approval test of line 165 left out
login_unapproved(c, username, email, password) ==
    LET found == {u \in users : /\ u.username = username
                                /\ u.email = email
                                /\ u.password_hash = password}
    IN  IF found # {}
        THEN LET user == CHOOSE u \in found : TRUE
             IN  /\ session' = [session EXCEPT ![c] =
                                   [logged_in |-> TRUE, user_id |-> user.id,
                                    username |-> user.username,
                                    email |-> user.email, role |-> user.role]]
                 /\ users' = (users \ {user})
                               \cup {[user EXCEPT !.last_login = TRUE]}
                 /\ resp' = Response("login", c, "ok", user.id, {})
                 /\ UNCHANGED <<faculty, pubs, nextId>>
        ELSE /\ resp' = Response("login", c, "invalid", 0, {})
             /\ UNCHANGED <<users, faculty, pubs, nextId, session>>

\* POST /login
login(c, username, email, password) ==
    LET found == {u \in users : /\ u.username = username
                                /\ u.email = email
                                /\ u.password_hash = password}
    IN  IF found # {}
        THEN LET user == CHOOSE u \in found : TRUE
             IN  IF ~user.approved
                 THEN /\ resp' = Response("login", c, "pending", user.id, {})
                      /\ UNCHANGED <<users, faculty, pubs, nextId, session>>
                 ELSE /\ session' = [session EXCEPT ![c] =
                                        [logged_in |-> TRUE, user_id |-> user.id,
                                         username |-> user.username,
                                         email |-> user.email, role |-> user.role]]
                      /\ users' = (users \ {user})
                                    \cup {[user EXCEPT !.last_login = TRUE]}
                      /\ resp' = Response("login", c, "ok", user.id, {})
                      /\ UNCHANGED <<faculty, pubs, nextId>>
        ELSE /\ resp' = Response("login", c, "invalid", 0, {})
             /\ UNCHANGED <<users, faculty, pubs, nextId, session>>

\* logout without session.clear()
logout_keepsession(c) ==
    /\ resp' = Response("logout", c, "login_required", 0, {})
    /\ UNCHANGED <<users, faculty, pubs, nextId, session>>

\* GET /logout
logout(c) ==
    /\ session' = [session EXCEPT ![c] = EmptySession]
    /\ resp' = Response("logout", c, "login_required", 0, {})
    /\ UNCHANGED <<users, faculty, pubs, nextId>>

\* POST /register
register(c, username, email, password, role) ==
    IF username = "" \/ email = "" \/ password = ""
    THEN /\ resp' = Response("register", c, "validation", 0, {})
         /\ UNCHANGED <<users, faculty, pubs, nextId, session>>
    ELSE IF \E u \in users : u.email = email
    THEN /\ resp' = Response("register", c, "duplicate", 0, {})
         /\ UNCHANGED <<users, faculty, pubs, nextId, session>>
    ELSE /\ nextId.users <= MaxUserId
         /\ users' = users \cup
                {[id |-> nextId.users, username |-> username, email |-> email,
                  password_hash |-> password, role |-> role,
                  approved |-> FALSE, last_login |-> FALSE]}
         /\ nextId' = [nextId EXCEPT !.users = @ + 1]
         /\ resp' = Response("register", c, "ok", nextId.users, {})
         /\ UNCHANGED <<faculty, pubs, session>>

\* GET /manage_users
manage_users(c) ==
    \/ LoginRedirect("manage_users", c, 0)
    \/ /\ LoggedIn(c)
       /\ IF get_user_role(session[c]) # "IQAC"
          THEN resp' = Response("manage_users", c, "denied", 0, {})
          ELSE resp' = Response("manage_users", c, "ok", 0, Ids(users))
       /\ UNCHANGED <<users, faculty, pubs, nextId, session>>

\* GET /approve_users
approve_users(c) ==
    \/ LoginRedirect("approve_users", c, 0)
    \/ /\ LoggedIn(c)
       /\ IF get_user_role(session[c]) # "IQAC"
          THEN resp' = Response("approve_users", c, "denied", 0, {})
          ELSE resp' = Response("approve_users", c, "ok", 0,
                                Ids({u \in users : ~u.approved}))
       /\ UNCHANGED <<users, faculty, pubs, nextId, session>>

\* delete_user with the own-account test of line 1411 left out
delete_user_self(c, user_id) ==
    \/ LoginRedirect("delete_user", c, user_id)
    \/ /\ LoggedIn(c)
       /\ IF get_user_role(session[c]) # "IQAC"
          THEN /\ resp' = Response("delete_user", c, "denied", user_id, {})
               /\ users' = users
          ELSE IF RowWith(users, user_id) # {}
          THEN /\ users' = users \ RowWith(users, user_id)
               /\ resp' = Response("delete_user", c, "ok", user_id, {})
          ELSE /\ resp' = Response("delete_user", c, "not_found", user_id, {})
               /\ users' = users
       /\ UNCHANGED <<faculty, pubs, nextId, session>>

\* GET /delete_user/<user_id>
delete_user(c, user_id) ==
    \/ LoginRedirect("delete_user", c, user_id)
    \/ /\ LoggedIn(c)
       /\ IF get_user_role(session[c]) # "IQAC"
          THEN /\ resp' = Response("delete_user", c, "denied", user_id, {})
               /\ users' = users
          ELSE IF user_id = session[c].user_id
          THEN /\ resp' = Response("delete_user", c, "rejected", user_id, {})
               /\ users' = users
          ELSE IF RowWith(users, user_id) # {}
          THEN /\ users' = users \ RowWith(users, user_id)
               /\ resp' = Response("delete_user", c, "ok", user_id, {})
          ELSE /\ resp' = Response("delete_user", c, "not_found", user_id, {})
               /\ users' = users
       /\ UNCHANGED <<faculty, pubs, nextId, session>>

\* approve_user with the role test of line 1464 left out
approve_user_anyrole(c, user_id) ==
    \/ LoginRedirect("approve_user", c, user_id)
    \/ /\ LoggedIn(c)
       /\ users' = {IF u.id = user_id THEN [u EXCEPT !.approved = TRUE] ELSE u
                    : u \in users}
       /\ resp' = Response("approve_user", c, "ok", user_id, {})
       /\ UNCHANGED <<faculty, pubs, nextId, session>>

\* GET /approve_user/<user_id>
approve_user(c, user_id) ==
    \/ LoginRedirect("approve_user", c, user_id)
    \/ /\ LoggedIn(c)
       /\ IF get_user_role(session[c]) # "IQAC"
          THEN /\ resp' = Response("approve_user", c, "denied", user_id, {})
               /\ users' = users
          ELSE /\ users' = {IF u.id = user_id THEN [u EXCEPT !.approved = TRUE] ELSE u
                            : u \in users}
               /\ resp' = Response("approve_user", c, "ok", user_id, {})
       /\ UNCHANGED <<faculty, pubs, nextId, session>>

\* GET /reject_user/<user_id>
reject_user(c, user_id) ==
    \/ LoginRedirect("reject_user", c, user_id)
    \/ /\ LoggedIn(c)
       /\ IF get_user_role(session[c]) # "IQAC"
          THEN /\ resp' = Response("reject_user", c, "denied", user_id, {})
               /\ users' = users
          ELSE /\ users' = {u \in users : ~(u.id = user_id /\ ~u.approved)}
               /\ resp' = Response("reject_user", c, "ok", user_id, {})
       /\ UNCHANGED <<faculty, pubs, nextId, session>>

(***************************************************************************)
(* User-management specification: the deployment starts with the seeded    *)
(* administrator and empty sessions.                                       *)
(***************************************************************************)
NoResponse == Response("none", "c1", "none", 0, {})

EmptyPubs == [k \in ChildTables |-> {}]

FreshIds ==
    [users |-> 2, faculty |-> 1, journal |-> 1, conference |-> 1,
     book_chapter |-> 1, patent |-> 1, qualification |-> 1]

\* Inputs of the user-management requests
RegUsernames == {"u", ""}
RegRoles == {"IQAC", "Office", "Faculty", "Guest"}
LoginPasswords == {"p", "x"}

InitUsers ==
    /\ users = {SeedAdmin}
    /\ faculty = {}
    /\ pubs = EmptyPubs
    /\ nextId = FreshIds
    /\ session = [c \in Clients |-> EmptySession]
    /\ resp = NoResponse
    /\ Quiescent

Login == \E c \in Clients, e \in Emails, p \in LoginPasswords : login(c, "u", e, p)
Logout == \E c \in Clients : logout(c)
Register ==
    \E c \in Clients, n \in RegUsernames, e \in Emails, r \in RegRoles :
        register(c, n, e, "p", r)
ManageUsers == \E c \in Clients : manage_users(c)
ApproveUsers == \E c \in Clients : approve_users(c)
DeleteUser == \E c \in Clients, u \in UserIds : delete_user(c, u)
ApproveUser == \E c \in Clients, u \in UserIds : approve_user(c, u)
RejectUser == \E c \in Clients, u \in UserIds : reject_user(c, u)

NextUsers ==
    \/ Login /\ Sequential
    \/ Logout /\ Sequential
    \/ Register /\ Sequential
    \/ ManageUsers /\ Sequential
    \/ ApproveUsers /\ Sequential
    \/ DeleteUser /\ Sequential
    \/ ApproveUser /\ Sequential
    \/ RejectUser /\ Sequential

SpecUsers == InitUsers /\ [][NextUsers]_vars

(***************************************************************************)
(* Claims about user management (checked under SpecUsers)                  *)
(***************************************************************************)
UserAdminOps ==
    {"manage_users", "approve_users", "approve_user", "reject_user", "delete_user"}

\* The canonical role of the session that issued the request answered by resp'
\* (none of the user-management handlers changes the session).
ActorRole == get_user_role(session[resp'.client])

\* C5: a manage_users, approve_users, approve_user, reject_user or delete_user
\* request from an actor whose canonical role is not IQAC (Office, Faculty, an
\* unmapped token, or no session at all) leaves the users table as it was and
\* returns no user row.
C5_OnlyIQACManagesUsers ==
    [][ (resp'.op \in UserAdminOps /\ ActorRole # "IQAC")
            => (users' = users /\ resp'.rows = {}) ]_vars

\* An Office actor asked to approve a pending user and was denied.
C5_Witness ==
    /\ resp.op = "approve_user"
    /\ resp.outcome = "denied"
    /\ LoggedIn(resp.client)
    /\ get_user_role(session[resp.client]) = "Office"
    /\ \E u \in users : u.id = resp.target /\ ~u.approved

\* C6: no request issued from the session of an IQAC actor with user id u
\* removes user row u, and delete_user(u) from that session is rejected.
C6_SelfProtection ==
    [][ \A c \in Clients :
          (resp'.client = c /\ LoggedIn(c) /\ get_user_role(session[c]) = "IQAC")
              => /\ RowWith(users, session[c].user_id) # {}
                      => RowWith(users', session[c].user_id) # {}
                 /\ (resp'.op = "delete_user" /\ resp'.target = session[c].user_id)
                      => resp'.outcome = "rejected" ]_vars

\* An IQAC actor asked to delete the account it is logged in with.
C6_Witness ==
    /\ resp.op = "delete_user"
    /\ resp.outcome = "rejected"
    /\ LoggedIn(resp.client)
    /\ session[resp.client].user_id = resp.target
    /\ RowWith(users, resp.target) # {}

\* C7: register stores the new user unapproved whatever role it asks for; a
\* login establishes a session only for a user that is already approved, so
\* every session belongs to a user that is approved (or has been deleted
\* since); and approved goes from false to true only in an approve_user
\* request for that id issued by an IQAC actor.
C7_StepOK ==
    /\ (resp'.op = "register" /\ resp'.outcome = "ok")
          => \E u \in users' \ users : u.id = resp'.target /\ ~u.approved
    /\ \A u \in users' \ users : u.id \notin Ids(users) => ~u.approved
    /\ \A c \in Clients :
          (session'[c] # session[c] /\ session'[c].logged_in)
              => /\ resp'.op = "login"
                 /\ \E u \in users : u.id = session'[c].user_id /\ u.approved
    /\ \A u \in users, v \in users' :
          (u.id = v.id /\ ~u.approved /\ v.approved)
              => /\ resp'.op = "approve_user"
                 /\ resp'.target = u.id
                 /\ ActorRole = "IQAC"

C7_UserLifecycle ==
    /\ [](\A c \in Clients : LoggedIn(c) =>
             \A u \in users : u.id = session[c].user_id => u.approved)
    /\ [][C7_StepOK]_vars

\* A registered user that nobody approved tried to log in and got no session.
C7_Witness ==
    /\ resp.op = "login"
    /\ resp.outcome = "pending"
    /\ \E u \in users : u.id = resp.target /\ ~u.approved /\ u.role = "IQAC"
    /\ \A c \in Clients : session[c].user_id # resp.target

(***************************************************************************)
(* Publications: ownership checks and the twelve mutating handlers         *)
(***************************************************************************)
PubIds == 1 .. (MaxPubId + 1)

\* SELECT email FROM faculty WHERE id = %s, then faculty and faculty['email'] == user_email
OwnsFaculty(s, faculty_id) ==
    \E f \in faculty : f.id = faculty_id /\ f.email = SessionEmail(s)

\* can_edit_publications with the email comparison of line 98 left out for
\* IQAC and Office
can_edit_publications_any(s, faculty_id) ==
    LET user_role == get_user_role(s)
    IN  IF user_role \in {"IQAC", "Office"} THEN RowWith(faculty, faculty_id) # {}
        ELSE IF user_role = "Faculty" THEN OwnsFaculty(s, faculty_id)
        ELSE FALSE

can_edit_publications(s, faculty_id) ==
    LET user_role == get_user_role(s)
    IN  IF user_role \in {"IQAC", "Office"} THEN OwnsFaculty(s, faculty_id)
        ELSE IF user_role = "Faculty" THEN OwnsFaculty(s, faculty_id)
        ELSE FALSE

check_publication_access(s, faculty_id) ==
    LET user_role == get_user_role(s)
    IN  IF user_role \in {"IQAC(admin)", "Office"} THEN OwnsFaculty(s, faculty_id)
        ELSE IF user_role = "Faculty" THEN OwnsFaculty(s, faculty_id)
        ELSE FALSE

\* int(request.form['year_of_publication']) and the other conversions of a
\* publication form (for a patent, the dates the store parses): the texts
\* that convert, with their values; any other text raises and the handler's
\* except branch answers.
YearOf == ("2020" :> 2020) @@ ("2021" :> 2021)
PubFormOK(form) == form.year \in DOMAIN YearOf

PubsInserted ==
    (nextId.journal - 1) + (nextId.conference - 1)
        + (nextId.book_chapter - 1) + (nextId.patent - 1)

\* The body of an add_<kind> handler once login_required has let it through;
\* allowed is the result of the ownership check the handler calls.
AddPublication(op, kind, c, faculty_id, form, allowed) ==
    IF ~allowed
    THEN /\ resp' = Response(op, c, "denied", faculty_id, {})
         /\ UNCHANGED <<users, faculty, pubs, nextId, session>>
    ELSE IF ~PubFormOK(form)
    THEN /\ resp' = Response(op, c, "error", faculty_id, {})
         /\ UNCHANGED <<users, faculty, pubs, nextId, session>>
    ELSE /\ PubsInserted < MaxPubId
         /\ pubs' = [pubs EXCEPT ![kind] = @ \cup
                        {[id |-> nextId[kind], faculty_id |-> faculty_id,
                          title |-> form.title, year |-> YearOf[form.year]]}]
         /\ nextId' = [nextId EXCEPT ![kind] = @ + 1]
         /\ resp' = Response(op, c, "ok", faculty_id, {})
         /\ UNCHANGED <<users, faculty, session>>

\* The body of a delete_<kind> handler; allowed is the result of the ownership
\* check the handler calls on the faculty_id of the row it has read.
DeletePublication(op, kind, c, pub_id, allowed) ==
    LET found == RowWith(pubs[kind], pub_id)
    IN  IF found = {}
        THEN /\ resp' = Response(op, c, "not_found", pub_id, {})
             /\ UNCHANGED <<users, faculty, pubs, nextId, session>>
        ELSE IF ~allowed
        THEN /\ resp' = Response(op, c, "denied", pub_id, {})
             /\ UNCHANGED <<users, faculty, pubs, nextId, session>>
        ELSE /\ pubs' = [pubs EXCEPT ![kind] = @ \ found]
             /\ resp' = Response(op, c, "ok", pub_id, {})
             /\ UNCHANGED <<users, faculty, nextId, session>>

\* The body of an edit_<kind> handler; found is the result of its first SELECT
EditPublication(op, kind, c, pub_id, method, form, found) ==
    IF found = {}
    THEN /\ resp' = Response(op, c, "not_found", pub_id, {})
         /\ UNCHANGED <<users, faculty, pubs, nextId, session>>
    ELSE LET row == CHOOSE r \in found : TRUE
         IN  IF ~can_edit_publications(session[c], row.faculty_id)
             THEN /\ resp' = Response(op, c, "denied", pub_id, {})
                  /\ UNCHANGED <<users, faculty, pubs, nextId, session>>
             ELSE IF method = "GET"
             THEN /\ resp' = Response(op, c, "form", pub_id, {pub_id})
                  /\ UNCHANGED <<users, faculty, pubs, nextId, session>>
             ELSE IF ~PubFormOK(form)
             THEN /\ resp' = Response(op, c, "error", pub_id, {})
                  /\ UNCHANGED <<users, faculty, pubs, nextId, session>>
             ELSE /\ pubs' = [pubs EXCEPT ![kind] = (@ \ found) \cup
                                {[row EXCEPT !.title = form.title,
                                             !.year = YearOf[form.year]]}]
                  /\ resp' = Response(op, c, "ok", pub_id, {})
                  /\ UNCHANGED <<users, faculty, nextId, session>>

\* POST /add_journal_publication/<faculty_id>
add_journal_publication(c, faculty_id, form) ==
    \/ LoginRedirect("add_journal_publication", c, faculty_id)
    \/ /\ LoggedIn(c)
       /\ AddPublication("add_journal_publication", "journal", c, faculty_id, form,
                         can_edit_publications(session[c], faculty_id))

\* GET /delete_journal/<journal_id>
delete_journal(c, journal_id) ==
    \/ LoginRedirect("delete_journal", c, journal_id)
    \/ /\ LoggedIn(c)
       /\ DeletePublication("delete_journal", "journal", c, journal_id,
              \A row \in RowWith(pubs["journal"], journal_id) :
                  can_edit_publications(session[c], row.faculty_id))

\* POST /add_conference_publication/<faculty_id>
add_conference_publication(c, faculty_id, form) ==
    \/ LoginRedirect("add_conference_publication", c, faculty_id)
    \/ /\ LoggedIn(c)
       /\ AddPublication("add_conference_publication", "conference", c, faculty_id,
                         form, can_edit_publications(session[c], faculty_id))

\* GET /delete_conference/<conference_id>
delete_conference(c, conference_id) ==
    \/ LoginRedirect("delete_conference", c, conference_id)
    \/ /\ LoggedIn(c)
       /\ DeletePublication("delete_conference", "conference", c, conference_id,
              \A row \in RowWith(pubs["conference"], conference_id) :
                  can_edit_publications(session[c], row.faculty_id))

\* POST /add_book_chapter/<faculty_id>
add_book_chapter(c, faculty_id, form) ==
    \/ LoginRedirect("add_book_chapter", c, faculty_id)
    \/ /\ LoggedIn(c)
       /\ AddPublication("add_book_chapter", "book_chapter", c, faculty_id, form,
                         can_edit_publications(session[c], faculty_id))

\* GET /delete_book_chapter/<chapter_id>
delete_book_chapter(c, chapter_id) ==
    \/ LoginRedirect("delete_book_chapter", c, chapter_id)
    \/ /\ LoggedIn(c)
       /\ DeletePublication("delete_book_chapter", "book_chapter", c, chapter_id,
              \A row \in RowWith(pubs["book_chapter"], chapter_id) :
                  check_publication_access(session[c], row.faculty_id))

\* POST /add_patent/<faculty_id>
add_patent(c, faculty_id, form) ==
    \/ LoginRedirect("add_patent", c, faculty_id)
    \/ /\ LoggedIn(c)
       /\ AddPublication("add_patent", "patent", c, faculty_id, form,
                         check_publication_access(session[c], faculty_id))

\* GET /delete_patent/<patent_id>
delete_patent(c, patent_id) ==
    \/ LoginRedirect("delete_patent", c, patent_id)
    \/ /\ LoggedIn(c)
       /\ DeletePublication("delete_patent", "patent", c, patent_id,
              \A row \in RowWith(pubs["patent"], patent_id) :
                  check_publication_access(session[c], row.faculty_id))

\* GET, POST /edit_journal/<journal_id>: the SELECT joins faculty on faculty_id
edit_journal(c, journal_id, method, form) ==
    \/ LoginRedirect("edit_journal", c, journal_id)
    \/ /\ LoggedIn(c)
       /\ EditPublication("edit_journal", "journal", c, journal_id, method, form,
                          {j \in pubs["journal"] :
                              j.id = journal_id /\ j.faculty_id \in Ids(faculty)})

\* GET, POST /edit_conference/<conference_id>
edit_conference(c, conference_id, method, form) ==
    \/ LoginRedirect("edit_conference", c, conference_id)
    \/ /\ LoggedIn(c)
       /\ EditPublication("edit_conference", "conference", c, conference_id, method,
                          form, RowWith(pubs["conference"], conference_id))

\* GET, POST /edit_book_chapter/<chapter_id>
edit_book_chapter(c, chapter_id, method, form) ==
    \/ LoginRedirect("edit_book_chapter", c, chapter_id)
    \/ /\ LoggedIn(c)
       /\ EditPublication("edit_book_chapter", "book_chapter", c, chapter_id, method,
                          form, RowWith(pubs["book_chapter"], chapter_id))

\* GET, POST /edit_patent/<patent_id>
edit_patent(c, patent_id, method, form) ==
    \/ LoginRedirect("edit_patent", c, patent_id)
    \/ /\ LoggedIn(c)
       /\ EditPublication("edit_patent", "patent", c, patent_id, method, form,
                          RowWith(pubs["patent"], patent_id))

\* GET /faculty/<faculty_id>/publications: the rows handed to the template,
\* as <<kind, id>> pairs.  No role or ownership test precedes the queries.
view_publications(c, faculty_id) ==
    \/ LoginRedirect("view_publications", c, faculty_id)
    \/ /\ LoggedIn(c)
       /\ IF RowWith(faculty, faculty_id) = {}
          THEN resp' = Response("view_publications", c, "not_found", faculty_id, {})
          ELSE resp' = Response("view_publications", c, "ok", faculty_id,
                         UNION {{<<k, r.id>> : r \in
                                    {x \in pubs[k] : x.faculty_id = faculty_id}}
                                : k \in Kinds})
       /\ UNCHANGED <<users, faculty, pubs, nextId, session>>

(***************************************************************************)
(* Text values: a text is a tuple of one-character strings                 *)
(***************************************************************************)
Alphabet == <<" ", ".", "0", "1", "5", "6", "9", "a", "b", "c", "e", "x">>
Rank(ch) == CHOOSE i \in 1 .. Len(Alphabet) : Alphabet[i] = ch
Digits == {"0", "1", "5", "6", "9"}
DigitValue(ch) == CASE ch = "0" -> 0 [] ch = "1" -> 1 [] ch = "5" -> 5
                    [] ch = "6" -> 6 [] ch = "9" -> 9

RECURSIVE LStrip(_)
LStrip(t) == IF t # <<>> /\ Head(t) = " " THEN LStrip(Tail(t)) ELSE t
RECURSIVE RStrip(_)
RStrip(t) ==
    IF t # <<>> /\ t[Len(t)] = " " THEN RStrip(SubSeq(t, 1, Len(t) - 1)) ELSE t
\* str.strip()
Strip(t) == RStrip(LStrip(t))

\* column LIKE '%t%' (the texts of the model hold neither % nor _)
Contains(text, t) ==
    \E i \in 0 .. (Len(text) - Len(t)) : SubSeq(text, i + 1, i + Len(t)) = t

\* text1 < text2 in the column's collation order
RECURSIVE TextLess(_, _)
TextLess(t1, t2) ==
    IF t2 = <<>> THEN FALSE
    ELSE IF t1 = <<>> THEN TRUE
    ELSE IF Head(t1) # Head(t2) THEN Rank(Head(t1)) < Rank(Head(t2))
    ELSE TextLess(Tail(t1), Tail(t2))

\* Numbers are kept in hundredths of a unit: 5.9 is 590.
NotANumber == -1
RECURSIVE DigitsValue(_)
DigitsValue(t) ==
    IF t = <<>> THEN 0 ELSE DigitsValue(SubSeq(t, 1, Len(t) - 1)) * 10
                             + DigitValue(t[Len(t)])

\* float(text): surrounding blanks are dropped; digits with at most one
\* point convert (up to two decimals in the model); anything else raises
\* ValueError, which is NotANumber here.
ParseFloat(text) ==
    LET t == Strip(text)
        dots == {i \in 1 .. Len(t) : t[i] = "."}
    IN  IF t = <<>> \/ \E i \in 1 .. Len(t) : t[i] \notin Digits \cup {"."}
        THEN NotANumber
        ELSE IF dots = {} THEN DigitsValue(t) * 100
        ELSE IF Cardinality(dots) > 1 \/ Len(t) = 1 THEN NotANumber
        ELSE LET d == CHOOSE i \in dots : TRUE
                 whole == SubSeq(t, 1, d - 1)
                 frac == SubSeq(t, d + 1, Len(t))
             IN  DigitsValue(whole) * 100
                   + (IF Len(frac) = 0 THEN 0
                      ELSE IF Len(frac) = 1 THEN DigitsValue(frac) * 10
                      ELSE DigitsValue(SubSeq(frac, 1, 2)))

(***************************************************************************)
(* Faculty records                                                         *)
(***************************************************************************)
\* datetime.strptime(text, '%Y-%m-%d') succeeds
ValidDates == {"2000-01-01"}

\* ExperienceCategory with the first comparison strict
ExperienceCategory_strict(overall_exp) ==
    IF overall_exp < 590 THEN "0-5"
    ELSE IF overall_exp <= 1090 THEN "6-10"
    ELSE "10+"

\* The experience classifier written out in add_faculty
ExperienceCategory(overall_exp) ==
    IF overall_exp <= 590 THEN "0-5"
    ELSE IF overall_exp <= 1090 THEN "6-10"
    ELSE "10+"

\* The experience classifier written out a second time in edit_faculty
EditExperienceCategory(overall_exp) ==
    IF overall_exp <= 590 THEN "0-5"
    ELSE IF overall_exp <= 1090 THEN "6-10"
    ELSE "10+"

Abs(n) == IF n < 0 THEN 0 - n ELSE n

\* The values converted by float() from the four experience fields
ExpFields(form) ==
    {form.teaching_exp_pragati, form.teaching_exp_other,
     form.industrial_exp, form.overall_exp}

\* abs(calculated_total - overall_exp) in hundredths
ExpMismatch(form) ==
    Abs(form.teaching_exp_pragati + form.teaching_exp_other
          + form.industrial_exp - form.overall_exp)

\* The column values add_faculty writes from a form; edit_faculty writes the
\* same columns with the category of its own classifier
FacultyRow(id, form) ==
    [id |-> id, employee_id |-> form.employee_id, name_ssc |-> form.name_ssc,
     email |-> form.email, department |-> form.department,
     designation |-> form.designation, appointment_type |-> form.appointment_type,
     dob |-> form.dob,
     teaching_exp_pragati |-> form.teaching_exp_pragati,
     teaching_exp_other |-> form.teaching_exp_other,
     industrial_exp |-> form.industrial_exp,
     overall_exp |-> form.overall_exp,
     experience_category |-> ExperienceCategory(form.overall_exp)]

\* Foreign keys <child table>.faculty_id -> faculty.id: the store refuses to
\* delete a faculty row that qualification or publication rows still point to
\* (error 1451).
HasDependents(faculty_id) ==
    \E k \in ChildTables : \E r \in pubs[k] : r.faculty_id = faculty_id

\* add_faculty without the SELECT on the email column
add_faculty_noemailcheck(c, form) ==
    \/ LoginRedirect("add_faculty", c, 0)
    \/ /\ LoggedIn(c)
       /\ IF \E f \in faculty : f.employee_id = form.employee_id
          THEN /\ resp' = Response("add_faculty", c, "duplicate", 0, {})
               /\ UNCHANGED <<faculty, nextId>>
          ELSE IF form.dob \notin ValidDates
          THEN /\ resp' = Response("add_faculty", c, "validation", 0, {})
               /\ UNCHANGED <<faculty, nextId>>
          ELSE IF NotANumber \in ExpFields(form)
          THEN /\ resp' = Response("add_faculty", c, "error", 0, {})
               /\ UNCHANGED <<faculty, nextId>>
          ELSE \/ /\ ExpMismatch(form) >= 10
                  /\ resp' = Response("add_faculty", c, "validation", 0, {})
                  /\ UNCHANGED <<faculty, nextId>>
               \/ /\ ExpMismatch(form) <= 10
                  /\ nextId.faculty <= MaxFacultyId
                  /\ faculty' = faculty \cup {FacultyRow(nextId.faculty, form)}
                  /\ nextId' = [nextId EXCEPT !.faculty = @ + 1]
                  /\ resp' = Response("add_faculty", c, "ok", nextId.faculty, {})
       /\ UNCHANGED <<users, pubs, session>>

\* POST /add_faculty.  No role test precedes the insert.  A difference of
\* exactly 0.1 between the sum and overall_exp is compared in binary floating
\* point and falls on either side of the test, depending on the operands.
add_faculty(c, form) ==
    \/ LoginRedirect("add_faculty", c, 0)
    \/ /\ LoggedIn(c)
       /\ IF \/ \E f \in faculty : f.employee_id = form.employee_id
             \/ \E f \in faculty : f.email = form.email
          THEN /\ resp' = Response("add_faculty", c, "duplicate", 0, {})
               /\ UNCHANGED <<faculty, nextId>>
          ELSE IF form.dob \notin ValidDates
          THEN /\ resp' = Response("add_faculty", c, "validation", 0, {})
               /\ UNCHANGED <<faculty, nextId>>
          ELSE IF NotANumber \in ExpFields(form)
          THEN /\ resp' = Response("add_faculty", c, "error", 0, {})
               /\ UNCHANGED <<faculty, nextId>>
          ELSE \/ /\ ExpMismatch(form) >= 10
                  /\ resp' = Response("add_faculty", c, "validation", 0, {})
                  /\ UNCHANGED <<faculty, nextId>>
               \/ /\ ExpMismatch(form) <= 10
                  /\ nextId.faculty <= MaxFacultyId
                  /\ faculty' = faculty \cup {FacultyRow(nextId.faculty, form)}
                  /\ nextId' = [nextId EXCEPT !.faculty = @ + 1]
                  /\ resp' = Response("add_faculty", c, "ok", nextId.faculty, {})
       /\ UNCHANGED <<users, pubs, session>>

\* GET, POST /edit_faculty/<faculty_id>.  No role test; the POST branch has no
\* experience-sum test, and its UPDATE of an id that is not stored changes
\* nothing and is still answered as a success.
edit_faculty(c, faculty_id, method, form) ==
    \/ LoginRedirect("edit_faculty", c, faculty_id)
    \/ /\ LoggedIn(c)
       /\ IF method = "GET"
          THEN /\ IF RowWith(faculty, faculty_id) = {}
                  THEN resp' = Response("edit_faculty", c, "not_found", faculty_id, {})
                  ELSE resp' = Response("edit_faculty", c, "form", faculty_id,
                                        {faculty_id})
               /\ faculty' = faculty
          ELSE IF \/ \E f \in faculty :
                        f.employee_id = form.employee_id /\ f.id # faculty_id
                  \/ \E f \in faculty : f.email = form.email /\ f.id # faculty_id
          THEN /\ resp' = Response("edit_faculty", c, "duplicate", faculty_id, {})
               /\ faculty' = faculty
          ELSE IF form.dob \notin ValidDates
          THEN /\ resp' = Response("edit_faculty", c, "validation", faculty_id, {})
               /\ faculty' = faculty
          ELSE IF NotANumber \in ExpFields(form)
          THEN /\ resp' = Response("edit_faculty", c, "error", faculty_id, {})
               /\ faculty' = faculty
          ELSE /\ faculty' =
                    {IF f.id = faculty_id
                     THEN [FacultyRow(f.id, form) EXCEPT !.experience_category =
                               EditExperienceCategory(form.overall_exp)]
                     ELSE f : f \in faculty}
               /\ resp' = Response("edit_faculty", c, "ok", faculty_id, {})
       /\ UNCHANGED <<users, pubs, nextId, session>>

\* delete_faculty without the errno 1451 branch of its except clause: the
\* refused DELETE is answered with the generic database error.
delete_faculty_generic(c, faculty_id) ==
    \/ LoginRedirect("delete_faculty", c, faculty_id)
    \/ /\ LoggedIn(c)
       /\ IF RowWith(faculty, faculty_id) = {}
          THEN /\ resp' = Response("delete_faculty", c, "not_found", faculty_id, {})
               /\ faculty' = faculty
          ELSE IF HasDependents(faculty_id)
          THEN /\ resp' = Response("delete_faculty", c, "db_error", faculty_id, {})
               /\ faculty' = faculty
          ELSE /\ faculty' = faculty \ RowWith(faculty, faculty_id)
               /\ resp' = Response("delete_faculty", c, "ok", faculty_id, {})
       /\ UNCHANGED <<users, pubs, nextId, session>>

\* GET /delete_faculty/<faculty_id>.  No role test precedes the DELETE.  The
\* except clause answers error 1451 with the 'delete related records first'
\* message (outcome "dependency") and any other error with the generic one.
delete_faculty(c, faculty_id) ==
    \/ LoginRedirect("delete_faculty", c, faculty_id)
    \/ /\ LoggedIn(c)
       /\ IF RowWith(faculty, faculty_id) = {}
          THEN /\ resp' = Response("delete_faculty", c, "not_found", faculty_id, {})
               /\ faculty' = faculty
          ELSE IF HasDependents(faculty_id)
          THEN /\ resp' = Response("delete_faculty", c, "dependency", faculty_id, {})
               /\ faculty' = faculty
          ELSE /\ faculty' = faculty \ RowWith(faculty, faculty_id)
               /\ resp' = Response("delete_faculty", c, "ok", faculty_id, {})
       /\ UNCHANGED <<users, pubs, nextId, session>>

\* GET /faculty/<faculty_id>.  The access test compares the canonical role
\* with the legacy token 'viewer'; on a missing row the test, when it is
\* reached, subscripts None.
view_faculty(c, faculty_id) ==
    \/ LoginRedirect("view_faculty", c, faculty_id)
    \/ /\ LoggedIn(c)
       /\ LET found == RowWith(faculty, faculty_id)
          IN  IF get_user_role(session[c]) \in {"viewer"}
              THEN IF found = {}
                   THEN resp' = Response("view_faculty", c, "exception", faculty_id, {})
                   ELSE IF \E f \in found : f.email # session[c].email
                   THEN resp' = Response("view_faculty", c, "denied", faculty_id, {})
                   ELSE resp' = Response("view_faculty", c, "ok", faculty_id,
                                         Ids(found))
              ELSE resp' = Response("view_faculty", c, "ok", faculty_id, Ids(found))
       /\ UNCHANGED <<users, faculty, pubs, nextId, session>>

(***************************************************************************)
(* Faculty listing and roster export: the query both handlers build        *)
(***************************************************************************)
\* A query is the list of WHERE clauses appended so far and the list of
\* parameters appended so far; every clause holds one %s, the search clause two.
Placeholders(clause) == IF clause = "search" THEN 2 ELSE 1

RECURSIVE PlaceholderCount(_)
PlaceholderCount(clauses) ==
    IF clauses = <<>> THEN 0
    ELSE Placeholders(Head(clauses)) + PlaceholderCount(Tail(clauses))

\* One clause of the WHERE conjunction on row f, with its first parameter
ClauseHolds(f, clause, param) ==
    CASE clause = "email" -> f.email = param
      [] clause = "search" -> Contains(f.name_ssc, param) \/ Contains(f.employee_id, param)
      [] clause = "department" -> f.department = param
      [] clause = "designation" -> f.designation = param
      [] clause = "appointment_type" -> f.appointment_type = param
      [] clause = "exp_from" -> f.overall_exp >= param
      [] clause = "exp_to" -> f.overall_exp <= param

RECURSIVE WhereHolds(_, _, _)
WhereHolds(f, clauses, params) ==
    IF clauses = <<>> THEN TRUE
    ELSE /\ ClauseHolds(f, Head(clauses), Head(params))
         /\ WhereHolds(f, Tail(clauses),
                       SubSeq(params, Placeholders(Head(clauses)) + 1, Len(params)))

\* cursor.execute(query, params): the connector raises when the statement
\* holds more %s than there are parameters
QueryRuns(query) == PlaceholderCount(query.clauses) = Len(query.params)
QueryRows(query) == {f \in faculty : WhereHolds(f, query.clauses, query.params)}

\* ORDER BY name_ssc: the orders the store may return the rows in, as id lists
\* (rows with equal names come in either order)
OrderedByName(rows) ==
    {order \in [1 .. Cardinality(rows) -> Ids(rows)] :
        /\ \A i, j \in DOMAIN order : i # j => order[i] # order[j]
        /\ \A i, j \in DOMAIN order : i < j =>
              \E f \in rows, g \in rows :
                  /\ f.id = order[i] /\ g.id = order[j]
                  /\ ~TextLess(g.name_ssc, f.name_ssc)}

\* 'SELECT * FROM faculty WHERE email = %s' for a Faculty actor, 'WHERE 1=1' otherwise
BaseQuery(s) ==
    IF get_user_role(s) \in {"Faculty"}
    THEN [clauses |-> <<"email">>, params |-> <<s.email>>]
    ELSE [clauses |-> <<>>, params |-> <<>>]

\* if <applied>: query += ' AND column = %s'; params.append(value)
TextFilter(query, applied, clause, value) ==
    IF applied
    THEN [clauses |-> Append(query.clauses, clause),
          params |-> IF clause = "search"
                     THEN query.params \o <<value, value>>
                     ELSE Append(query.params, value)]
    ELSE query

\* if text and text.strip(): try: query += ' AND overall_exp >= %s';
\* params.append(float(text)) except ValueError: (logged).  The clause is
\* appended before float() raises.
ExpFilter(query, text, clause) ==
    IF text # <<>> /\ Strip(text) # <<>>
    THEN [clauses |-> Append(query.clauses, clause),
          params |-> IF ParseFloat(text) = NotANumber THEN query.params
                     ELSE Append(query.params, ParseFloat(text))]
    ELSE query

\* faculty_list applies a text filter when `value and value.strip()`
ListQuery(s, args) ==
    LET on(t) == t # <<>> /\ Strip(t) # <<>>
        q1 == TextFilter(BaseQuery(s), on(args.search), "search", args.search)
        q2 == TextFilter(q1, on(args.department), "department", args.department)
        q3 == TextFilter(q2, on(args.designation), "designation", args.designation)
        q4 == TextFilter(q3, on(args.appointment_type), "appointment_type",
                         args.appointment_type)
        q5 == ExpFilter(q4, args.exp_from, "exp_from")
    IN  ExpFilter(q5, args.exp_to, "exp_to")

\* download_faculty_excel applies a text filter when `value` is non-empty
ExcelQuery(s, args) ==
    LET on(t) == t # <<>>
        q1 == TextFilter(BaseQuery(s), on(args.search), "search", args.search)
        q2 == TextFilter(q1, on(args.department), "department", args.department)
        q3 == TextFilter(q2, on(args.designation), "designation", args.designation)
        q4 == TextFilter(q3, on(args.appointment_type), "appointment_type",
                         args.appointment_type)
        q5 == ExpFilter(q4, args.exp_from, "exp_from")
    IN  ExpFilter(q5, args.exp_to, "exp_to")

\* GET /faculty: a failing query is not caught (the request ends in an
\* unhandled exception); the rows go to the template in query order.
faculty_list(c, args) ==
    \/ LoginRedirect("faculty_list", c, args)
    \/ /\ LoggedIn(c)
       /\ LET query == ListQuery(session[c], args)
          IN  IF ~QueryRuns(query)
              THEN resp' = Response("faculty_list", c, "exception", args, <<>>)
              ELSE \E order \in OrderedByName(QueryRows(query)) :
                      resp' = Response("faculty_list", c, "ok", args, order)
       /\ UNCHANGED <<users, faculty, pubs, nextId, session>>

\* GET /download_faculty_excel: a failing query is caught, flashed and
\* redirected to /faculty; the data rows of the sheet follow query order.
download_faculty_excel(c, args) ==
    \/ LoginRedirect("download_faculty_excel", c, args)
    \/ /\ LoggedIn(c)
       /\ LET query == ExcelQuery(session[c], args)
          IN  IF ~QueryRuns(query)
              THEN resp' = Response("download_faculty_excel", c, "error", args, <<>>)
              ELSE \E order \in OrderedByName(QueryRows(query)) :
                      resp' = Response("download_faculty_excel", c, "ok", args, order)
       /\ UNCHANGED <<users, faculty, pubs, nextId, session>>

(***************************************************************************)
(* Inputs of the faculty and publication requests                          *)
(***************************************************************************)
CSE == <<"C", "S", "E">>
ECE == <<"E", "C", "E">>
Professor == <<"P", "r", "o", "f">>
Assistant == <<"A", "s", "s", "t">>
Regular == <<"R", "e", "g">>
Contract == <<"C", "o", "n">>

FormA ==
    [employee_id |-> <<"e", "1">>, name_ssc |-> <<"a", "b">>, email |-> "a",
     department |-> CSE, designation |-> Professor, appointment_type |-> Regular,
     dob |-> "2000-01-01", teaching_exp_pragati |-> 590, teaching_exp_other |-> 0,
     industrial_exp |-> 0, overall_exp |-> 590]

FormB ==
    [employee_id |-> <<"e", "6">>, name_ssc |-> <<"b", " ", "c">>, email |-> "b",
     department |-> ECE, designation |-> Assistant, appointment_type |-> Contract,
     dob |-> "2000-01-01", teaching_exp_pragati |-> 600, teaching_exp_other |-> 400,
     industrial_exp |-> 90, overall_exp |-> 1090]

\* the second employee under the first one's name and department
FormB2 ==
    [FormB EXCEPT !.name_ssc = <<"a", "b">>, !.department = CSE,
                  !.designation = Professor, !.appointment_type = Regular,
                  !.teaching_exp_other = 0, !.industrial_exp = 0, !.overall_exp = 600]

\* a third employee, whose email belongs to no user of the model
FormC ==
    [FormB EXCEPT !.employee_id = <<"e", "9">>, !.name_ssc = <<"c", "a">>,
                  !.email = "c", !.teaching_exp_other = 410, !.overall_exp = 1100]

FormBadDate == [FormA EXCEPT !.dob = "31-12-2000"]
FormBadNumber == [FormA EXCEPT !.overall_exp = NotANumber]
\* sum 10.9 against overall 12.0, and against overall 11.0 (off by exactly 0.1)
FormMismatch == [FormB EXCEPT !.overall_exp = 1200]
FormEdge == [FormB EXCEPT !.overall_exp = 1100]

FacultyForms ==
    {FormA, FormB, FormB2, FormBadDate, FormBadNumber, FormMismatch, FormEdge}

PubForms ==
    {[title |-> "t1", year |-> "2020"], [title |-> "t2", year |-> "2021"],
     [title |-> "t1", year |-> "20x1"]}

Methods == {"GET", "POST"}
\* a GET carries no form: one value stands for it
PubFormsOf(method) ==
    IF method = "GET" THEN {[title |-> "", year |-> ""]} ELSE PubForms

\* The users of a running deployment: two approved accounts that have logged
\* in before; the first one's stored role is any token, the second is Office.
SeededUsers(role) ==
    {[id |-> 1, username |-> "u", email |-> "a", password_hash |-> "p",
      role |-> role, approved |-> TRUE, last_login |-> TRUE],
     [id |-> 2, username |-> "u", email |-> "b", password_hash |-> "p",
      role |-> "Office", approved |-> TRUE, last_login |-> TRUE]}

\* One browser issues the requests of the faculty and publication
\* specifications; it logs in as either user.
LoginSeeded == \E e \in Emails, p \in LoginPasswords : login("c1", "u", e, p)
LogoutSeeded == logout("c1")

(***************************************************************************)
(* Publication specification: two faculty records are stored, one per user *)
(***************************************************************************)
\* The stored role of the first user: the canonical tokens and an unmapped one
SeedRoles == {"IQAC", "Office", "Faculty", "Guest"}

InitPub ==
    /\ \E role \in SeedRoles : users = SeededUsers(role)
    /\ faculty = {FacultyRow(1, FormA), FacultyRow(2, FormB)}
    /\ pubs = EmptyPubs
    /\ nextId = [FreshIds EXCEPT !.users = 3, !.faculty = 3]
    /\ session = [c \in Clients |-> EmptySession]
    /\ resp = NoResponse
    /\ Quiescent

\* The faculty ids a publication request names: the two stored ones and one
\* that is not stored.
PubTargets == {1, 2, 3}

ViewPublications == \E f \in PubTargets : view_publications("c1", f)
AddJournal == \E f \in PubTargets, form \in PubForms :
                 add_journal_publication("c1", f, form)
AddConference == \E f \in PubTargets, form \in PubForms :
                    add_conference_publication("c1", f, form)
AddBookChapter == \E f \in PubTargets, form \in PubForms : add_book_chapter("c1", f, form)
AddPatent == \E f \in PubTargets, form \in PubForms : add_patent("c1", f, form)
DeleteJournal == \E i \in PubIds : delete_journal("c1", i)
DeleteConference == \E i \in PubIds : delete_conference("c1", i)
DeleteBookChapter == \E i \in PubIds : delete_book_chapter("c1", i)
DeletePatent == \E i \in PubIds : delete_patent("c1", i)
EditJournal ==
    \E i \in PubIds, m \in Methods : \E form \in PubFormsOf(m) :
        edit_journal("c1", i, m, form)
EditConference ==
    \E i \in PubIds, m \in Methods : \E form \in PubFormsOf(m) :
        edit_conference("c1", i, m, form)
EditBookChapter ==
    \E i \in PubIds, m \in Methods : \E form \in PubFormsOf(m) :
        edit_book_chapter("c1", i, m, form)
EditPatent ==
    \E i \in PubIds, m \in Methods : \E form \in PubFormsOf(m) :
        edit_patent("c1", i, m, form)

NextPub ==
    \/ LoginSeeded /\ Sequential
    \/ LogoutSeeded /\ Sequential
    \/ ViewPublications /\ Sequential
    \/ AddJournal /\ Sequential
    \/ AddConference /\ Sequential
    \/ AddBookChapter /\ Sequential
    \/ AddPatent /\ Sequential
    \/ DeleteJournal /\ Sequential
    \/ DeleteConference /\ Sequential
    \/ DeleteBookChapter /\ Sequential
    \/ DeletePatent /\ Sequential
    \/ EditJournal /\ Sequential
    \/ EditConference /\ Sequential
    \/ EditBookChapter /\ Sequential
    \/ EditPatent /\ Sequential

SpecPub == InitPub /\ [][NextPub]_vars

(***************************************************************************)
(* Claims about publications (checked under SpecPub)                       *)
(***************************************************************************)
PubAddOps ==
    ("add_journal_publication" :> "journal")
        @@ ("add_conference_publication" :> "conference")
        @@ ("add_book_chapter" :> "book_chapter") @@ ("add_patent" :> "patent")

PubRowOps ==
    ("delete_journal" :> "journal") @@ ("delete_conference" :> "conference")
        @@ ("delete_book_chapter" :> "book_chapter") @@ ("delete_patent" :> "patent")
        @@ ("edit_journal" :> "journal") @@ ("edit_conference" :> "conference")
        @@ ("edit_book_chapter" :> "book_chapter") @@ ("edit_patent" :> "patent")

\* The stored faculty records that own what the request r is aimed at: the
\* record an add names, or the record the edited or deleted publication row
\* points to (read in the tables as they were when the request arrived).
RequestOwners(r) ==
    IF r.op \in DOMAIN PubAddOps THEN RowWith(faculty, r.target)
    ELSE IF r.op \in DOMAIN PubRowOps
    THEN {f \in faculty : \E row \in pubs[PubRowOps[r.op]] :
                              row.id = r.target /\ row.faculty_id = f.id}
    ELSE {}

\* C1: for every kind and every add, edit or delete request of a logged-in
\* actor on a publication owned by a stored faculty record whose email is not
\* the session email, whatever the actor's role, the publication tables are
\* left as they were and the answer is the access-denied outcome.
C1_ForeignPublicationDenied ==
    [][ \A f \in RequestOwners(resp') :
          (LoggedIn(resp'.client) /\ f.email # SessionEmail(session[resp'.client]))
              => (pubs' = pubs /\ resp'.outcome = "denied") ]_vars

\* An IQAC actor asked to delete a stored journal row of another member.
C1_Witness ==
    /\ resp.op = "delete_journal"
    /\ resp.outcome = "denied"
    /\ LoggedIn(resp.client)
    /\ get_user_role(session[resp.client]) = "IQAC"
    /\ \E row \in pubs["journal"], f \in faculty :
          /\ row.id = resp.target
          /\ row.faculty_id = f.id
          /\ f.email # session[resp.client].email

\* C2: a view_publications request of a Faculty actor for a stored faculty
\* record whose email is not the session email is denied and hands over no
\* publication row.
C2_FacultyOthersPublicationsDenied ==
    [][ (/\ resp'.op = "view_publications"
         /\ LoggedIn(resp'.client)
         /\ get_user_role(session[resp'.client]) = "Faculty"
         /\ \E f \in faculty :
               f.id = resp'.target /\ f.email # SessionEmail(session[resp'.client]))
            => (resp'.outcome = "denied" /\ resp'.rows = {}) ]_vars

\* A Faculty actor was handed a publication row of another member's record.
C2_Leak ==
    /\ resp.op = "view_publications"
    /\ resp.outcome = "ok"
    /\ resp.rows # {}
    /\ LoggedIn(resp.client)
    /\ get_user_role(session[resp.client]) = "Faculty"
    /\ \E f \in faculty : f.id = resp.target /\ f.email # session[resp.client].email

\* C10: for each canonical role IQAC, Office and Faculty, an add, edit or
\* delete request of any kind on a publication of the stored faculty record
\* whose email is the session email is not answered with access denied.
C10_OwnerAllowed ==
    [][ \A f \in RequestOwners(resp') :
          (/\ LoggedIn(resp'.client)
           /\ get_user_role(session[resp'.client]) \in {"IQAC", "Office", "Faculty"}
           /\ f.email = SessionEmail(session[resp'.client]))
              => resp'.outcome # "denied" ]_vars

\* An IQAC actor was denied adding a patent to the record that carries its
\* own email.
C10_OwnerDenied ==
    /\ resp.op = "add_patent"
    /\ resp.outcome = "denied"
    /\ LoggedIn(resp.client)
    /\ get_user_role(session[resp.client]) = "IQAC"
    /\ \E f \in faculty : f.id = resp.target /\ f.email = session[resp.client].email

(***************************************************************************)
(* Faculty specification: the faculty table starts empty and is filled,    *)
(* edited and emptied through the handlers.                                *)
(***************************************************************************)
\* The stored role of the first user: the canonical tokens, the two legacy
\* aliases of Faculty and an unmapped token.
FacultySeedRoles == {"IQAC", "Office", "Faculty", "viewer", "Viewer", "Guest"}

InitFaculty ==
    /\ \E role \in FacultySeedRoles : users = SeededUsers(role)
    /\ faculty = {}
    /\ pubs = EmptyPubs
    /\ nextId = [FreshIds EXCEPT !.users = 3]
    /\ session = [c \in Clients |-> EmptySession]
    /\ resp = NoResponse
    /\ Quiescent

\* The ids a faculty request names: every id the table can hand out and one more
FacultyIds == 1 .. (MaxFacultyId + 1)

AddFaculty == \E form \in FacultyForms : add_faculty("c1", form)
EditFaculty ==
    \E i \in FacultyIds, m \in Methods :
        \E form \in (IF m = "GET" THEN {FormA} ELSE FacultyForms) :
            edit_faculty("c1", i, m, form)
DeleteFaculty == \E i \in FacultyIds : delete_faculty("c1", i)
ViewFaculty == \E i \in FacultyIds : view_faculty("c1", i)

NextFaculty ==
    \/ LoginSeeded /\ Sequential
    \/ LogoutSeeded /\ Sequential
    \/ AddFaculty /\ Sequential
    \/ EditFaculty /\ Sequential
    \/ DeleteFaculty /\ Sequential
    \/ ViewFaculty /\ Sequential
    \/ AddJournal /\ Sequential

SpecFaculty == InitFaculty /\ [][NextFaculty]_vars

(***************************************************************************)
(* Claims about faculty records (checked under SpecFaculty)                *)
(***************************************************************************)
\* C3: a delete_faculty request removes a faculty record only when the
\* actor's canonical role is IQAC; after a request of an Office or Faculty
\* actor the faculty table is as it was.
C3_OnlyIQACDeletesFaculty ==
    [][ (resp'.op = "delete_faculty" /\ faculty' # faculty)
            => (LoggedIn(resp'.client)
                  /\ get_user_role(session[resp'.client]) = "IQAC") ]_vars

\* An Office actor's delete_faculty request removed a stored record.
C3_OfficeDeleted ==
    /\ resp.op = "delete_faculty"
    /\ resp.outcome = "ok"
    /\ LoggedIn(resp.client)
    /\ get_user_role(session[resp.client]) = "Office"
    /\ RowWith(faculty, resp.target) = {}

\* C4: an add_faculty or edit_faculty submission inserts or updates a faculty
\* record only when the actor's canonical role is IQAC or Office; after a
\* submission of a Faculty actor the table is as it was, whatever the form.
C4_OnlyStaffWritesFaculty ==
    [][ (resp'.op \in {"add_faculty", "edit_faculty"} /\ faculty' # faculty)
            => (LoggedIn(resp'.client)
                  /\ get_user_role(session[resp'.client]) \in {"IQAC", "Office"}) ]_vars

\* A Faculty actor's add_faculty submission inserted a record.
C4_FacultyInserted ==
    /\ resp.op = "add_faculty"
    /\ resp.outcome = "ok"
    /\ LoggedIn(resp.client)
    /\ get_user_role(session[resp.client]) = "Faculty"
    /\ RowWith(faculty, resp.target) # {}

\* C8: a view_faculty request of an actor whose stored role resolves to
\* Faculty (Faculty, viewer, Viewer) for a stored record whose email is not
\* the session email is denied.
C8_FacultyOthersDetailDenied ==
    [][ (/\ resp'.op = "view_faculty"
         /\ LoggedIn(resp'.client)
         /\ get_user_role(session[resp'.client]) = "Faculty"
         /\ \E f \in faculty :
               f.id = resp'.target /\ f.email # SessionEmail(session[resp'.client]))
            => resp'.outcome = "denied" ]_vars

\* An actor with the stored role viewer was shown another member's record.
C8_Shown ==
    /\ resp.op = "view_faculty"
    /\ resp.outcome = "ok"
    /\ LoggedIn(resp.client)
    /\ session[resp.client].role = "viewer"
    /\ \E f \in faculty : f.id = resp.target /\ f.email # session[resp.client].email

(***************************************************************************)
(* Listing specification: a stored faculty table is listed and exported    *)
(* under the filter parameters of the query string.                        *)
(***************************************************************************)
MaxActiveFilters == 2    \* filter parameters that are not empty in one request

\* The stored role of the first user
ListSeedRoles == {"IQAC", "Office", "Faculty", "viewer"}

\* The faculty tables of the listing specification: any of three records, of
\* which the first two carry the same name
ListSeedFaculty == {FacultyRow(1, FormA), FacultyRow(2, FormB2), FacultyRow(3, FormC)}

InitList ==
    /\ \E role \in ListSeedRoles : users = SeededUsers(role)
    /\ faculty \in SUBSET ListSeedFaculty
    /\ pubs = EmptyPubs
    /\ nextId = [FreshIds EXCEPT !.users = 3, !.faculty = 4]
    /\ session = [c \in Clients |-> EmptySession]
    /\ resp = NoResponse
    /\ Quiescent

\* request.args of /faculty and /download_faculty_excel: absent and blank
\* values, values that match stored records, and experience bounds that are
\* numbers, blanks and other texts
FilterValues ==
    [search |-> {<<>>, <<"a">>},
     department |-> {<<>>, <<" ">>, CSE},
     designation |-> {<<>>, Professor},
     appointment_type |-> {<<>>, Regular},
     exp_from |-> {<<>>, <<"6">>, <<"x">>},
     exp_to |-> {<<>>, <<"1", "0">>, <<"6", "x">>}]

FilterArgs ==
    {args \in [search : FilterValues.search, department : FilterValues.department,
               designation : FilterValues.designation,
               appointment_type : FilterValues.appointment_type,
               exp_from : FilterValues.exp_from, exp_to : FilterValues.exp_to] :
        Cardinality({k \in DOMAIN args : args[k] # <<>>}) <= MaxActiveFilters}

FacultyList == \E args \in FilterArgs : faculty_list("c1", args)
DownloadFacultyExcel == \E args \in FilterArgs : download_faculty_excel("c1", args)

NextList ==
    \/ LoginSeeded /\ Sequential
    \/ LogoutSeeded /\ Sequential
    \/ FacultyList /\ Sequential
    \/ DownloadFacultyExcel /\ Sequential

SpecList == InitList /\ [][NextList]_vars

(***************************************************************************)
(* Claims about the listing and the roster export (checked under SpecList) *)
(***************************************************************************)
ListOps == {"faculty_list", "download_faculty_excel"}

\* The ids a listing response carries
Returned(r) == {r.rows[i] : i \in DOMAIN r.rows}

Blank(t) == t # <<>> /\ Strip(t) = <<>>

\* Record f matches the filter parameters: every text filter that is given
\* must hold, a numeric bound restricts overall experience, a bound that is
\* not a number is skipped.  blanks tells whether a text filter made of
\* blanks only counts as given.
Matches(f, args, blanks) ==
    LET given(t) == t # <<>> /\ (blanks \/ ~Blank(t))
    IN  /\ given(args.search) =>
               \/ Contains(f.name_ssc, args.search)
               \/ Contains(f.employee_id, args.search)
        /\ given(args.department) => f.department = args.department
        /\ given(args.designation) => f.designation = args.designation
        /\ given(args.appointment_type) => f.appointment_type = args.appointment_type
        /\ ParseFloat(args.exp_from) # NotANumber
               => f.overall_exp >= ParseFloat(args.exp_from)
        /\ ParseFloat(args.exp_to) # NotANumber
               => f.overall_exp <= ParseFloat(args.exp_to)

\* C9: every record a Faculty actor gets from faculty_list or from
\* download_faculty_excel carries the session email, for every combination of
\* the filter parameters; an IQAC or Office actor gets all the records that
\* match the filters (under either reading of a filter made of blanks).
C9_ListScopedByRole ==
    [][ (resp'.op \in ListOps /\ LoggedIn(resp'.client)) =>
          LET s == session[resp'.client]
          IN  /\ get_user_role(s) = "Faculty" =>
                    \A id \in Returned(resp') :
                        \E f \in faculty : f.id = id /\ f.email = SessionEmail(s)
              /\ get_user_role(s) \in {"IQAC", "Office"} =>
                    /\ resp'.outcome = "ok"
                    /\ \E blanks \in BOOLEAN :
                          Returned(resp') =
                              Ids({f \in faculty : Matches(f, resp'.target, blanks)})
        ]_vars

\* C9, the part about Faculty actors alone
C9_FacultySeesOwnOnly ==
    [][ (/\ resp'.op \in ListOps
         /\ LoggedIn(resp'.client)
         /\ get_user_role(session[resp'.client]) = "Faculty")
            => \A id \in Returned(resp') :
                  \E f \in faculty :
                      f.id = id /\ f.email = SessionEmail(session[resp'.client]) ]_vars

\* An IQAC actor asked for the list with a lower bound that is not a number
\* while a record was stored, and got no list.
C9_ListFailed ==
    /\ resp.op = "faculty_list"
    /\ resp.outcome = "exception"
    /\ LoggedIn(resp.client)
    /\ get_user_role(session[resp.client]) = "IQAC"
    /\ ParseFloat(resp.target.exp_from) = NotANumber
    /\ \E f \in faculty : Matches(f, resp.target, TRUE)

(***************************************************************************)
(* Claims about the ownership decision (checked under SpecPub)             *)
(***************************************************************************)
\* The sessions that resolve to the canonical role of session s, under any
\* stored token and any email
SessionsOfRole(s) ==
    {[s EXCEPT !.role = t, !.email = e] :
        t \in {r \in RoleTokens : get_user_role([s EXCEPT !.role = r]) = get_user_role(s)},
        e \in Emails}

\* C11: the allow/deny decision of a publication add, edit or delete is a
\* function of the actor's canonical role and of whether the target record's
\* email is the session email: the decision a request gets is the decision
\* both ownership functions give to every session of the same canonical role
\* on every stored record with the same email equality, whatever the kind,
\* the operation and the requests that came before.
C11_DecisionIsFunctionOfRoleAndOwnership ==
    [][ \A f \in RequestOwners(resp') :
          LoggedIn(resp'.client) =>
            LET s == session[resp'.client]
                allowed == resp'.outcome # "denied"
            IN  \A s2 \in SessionsOfRole(s), g \in faculty :
                    ((g.email = SessionEmail(s2)) = (f.email = SessionEmail(s)))
                        => /\ can_edit_publications(s2, g.id) = allowed
                           /\ check_publication_access(s2, g.id) = allowed ]_vars

\* An IQAC actor added a journal row to the record with its own email while
\* the other ownership function refuses the same actor on the same record.
C11_TwoDecisions ==
    /\ resp.op = "add_journal_publication"
    /\ resp.outcome = "ok"
    /\ LoggedIn(resp.client)
    /\ get_user_role(session[resp.client]) = "IQAC"
    /\ \E f \in faculty : f.id = resp.target /\ f.email = session[resp.client].email
    /\ ~check_publication_access(session[resp.client], resp.target)

(***************************************************************************)
(* Claims about the experience fields (checked under SpecFaculty)          *)
(***************************************************************************)
\* C12: a create (add_faculty) or an edit (edit_faculty) whose experience
\* fields differ from overall_exp by more than 0.1 is rejected and writes
\* nothing: no row that such a request inserts or updates carries a
\* difference above 0.1 (10 hundredths).
C12_MismatchNeverWritten ==
    [][ resp'.op \in {"add_faculty", "edit_faculty"}
            => \A r \in faculty' \ faculty : ExpMismatch(r) <= 10 ]_vars

\* The same for add_faculty alone
C12_AddRejectsMismatch ==
    [][ resp'.op = "add_faculty"
            => \A r \in faculty' \ faculty : ExpMismatch(r) <= 10 ]_vars

\* An edit stored experience fields that differ from overall_exp by more than 0.1.
C12_EditStoredMismatch ==
    /\ resp.op = "edit_faculty"
    /\ resp.outcome = "ok"
    /\ \E r \in faculty : r.id = resp.target /\ ExpMismatch(r) > 10

(***************************************************************************)
(* Classifier specification: one record is created, edited and deleted     *)
(* with overall experience on and around the thresholds.                   *)
(***************************************************************************)
\* overall_exp values in hundredths: 0, 5.89, 5.9, 5.91, 6, 10.89, 10.9, 10.91, 11
ExpValues == {0, 589, 590, 591, 600, 1089, 1090, 1091, 1100}

\* A valid form whose experience is all teaching experience at this college
ExpForm(e) == [FormA EXCEPT !.teaching_exp_pragati = e, !.overall_exp = e]

InitClassifier ==
    /\ users = SeededUsers("IQAC")
    /\ faculty = {}
    /\ pubs = EmptyPubs
    /\ nextId = [FreshIds EXCEPT !.users = 3]
    /\ session = [c \in Clients |-> EmptySession]
    /\ resp = NoResponse
    /\ Quiescent

AddExpFaculty == \E e \in ExpValues : add_faculty("c1", ExpForm(e))
EditExpFaculty ==
    \E i \in FacultyIds, e \in ExpValues : edit_faculty("c1", i, "POST", ExpForm(e))

NextClassifier ==
    \/ LoginSeeded /\ Sequential
    \/ LogoutSeeded /\ Sequential
    \/ AddExpFaculty /\ Sequential
    \/ EditExpFaculty /\ Sequential
    \/ DeleteFaculty /\ Sequential

SpecClassifier == InitClassifier /\ [][NextClassifier]_vars

\* C13: the category stored with a record, by the create path and by the edit
\* path alike, is "0-5" iff overall_exp <= 5.9, "6-10" iff 5.9 < overall_exp
\* <= 10.9 and "10+" iff overall_exp > 10.9; and the two paths give every
\* value the same category.
C13_ClassifierThresholds ==
    /\ \A r \in faculty :
          /\ r.experience_category \in {"0-5", "6-10", "10+"}
          /\ r.experience_category = "0-5" <=> r.overall_exp <= 590
          /\ r.experience_category = "6-10" <=>
                (590 < r.overall_exp /\ r.overall_exp <= 1090)
          /\ r.experience_category = "10+" <=> r.overall_exp > 1090
    /\ \A e \in ExpValues :
          FacultyRow(1, ExpForm(e)).experience_category = EditExperienceCategory(e)

\* An edit stored 5.91 years under "6-10".
C13_Witness ==
    /\ resp.op = "edit_faculty"
    /\ resp.outcome = "ok"
    /\ \E r \in faculty :
          r.id = resp.target /\ r.overall_exp = 591 /\ r.experience_category = "6-10"

(***************************************************************************)
(* Claims about the filter builder (checked under SpecList)                *)
(***************************************************************************)
\* The query the other of the two paths builds for the request answered by r
\* of session s
OtherPathQuery(r, s) ==
    IF r.op = "faculty_list" THEN ExcelQuery(s, r.target) ELSE ListQuery(s, r.target)

\* C14: for a fixed database state, a fixed actor and every assignment of the
\* filter parameters (empty, blank and non-numeric values included),
\* faculty_list and download_faculty_excel select the same records in the
\* same order: what one path returns is what the other path's query selects,
\* in an order it can come in, and one path fails only when the other does.
C14_ListAndExportSelectTheSame ==
    [][ (resp'.op \in ListOps /\ LoggedIn(resp'.client)) =>
          LET other == OtherPathQuery(resp', session[resp'.client])
          IN  IF resp'.outcome = "ok"
              THEN QueryRuns(other) /\ resp'.rows \in OrderedByName(QueryRows(other))
              ELSE ~QueryRuns(other) ]_vars

\* The export under a department filter made of one blank wrote no record
\* while the listing under the same parameters selects some.
C14_ExportDiffers ==
    /\ resp.op = "download_faculty_excel"
    /\ resp.outcome = "ok"
    /\ resp.rows = <<>>
    /\ LoggedIn(resp.client)
    /\ resp.target.department = <<" ">>
    /\ QueryRows(ListQuery(session[resp.client], resp.target)) # {}

\* The filter parameters with every experience bound that is not a number
\* taken out
WithoutBadBounds(args) ==
    [args EXCEPT !.exp_from = IF ParseFloat(@) = NotANumber THEN <<>> ELSE @,
                 !.exp_to = IF ParseFloat(@) = NotANumber THEN <<>> ELSE @]

\* C15: a request whose exp_from or exp_to is not empty and not a number
\* completes normally and returns exactly the records its path selects under
\* the remaining filters, as if that bound had not been supplied.
C15_BadBoundIgnored ==
    [][ (/\ resp'.op \in ListOps
         /\ LoggedIn(resp'.client)
         /\ WithoutBadBounds(resp'.target) # resp'.target) =>
          LET s == session[resp'.client]
              rest == WithoutBadBounds(resp'.target)
              query == IF resp'.op = "faculty_list" THEN ListQuery(s, rest)
                       ELSE ExcelQuery(s, rest)
          IN  /\ resp'.outcome = "ok"
              /\ resp'.rows \in OrderedByName(QueryRows(query)) ]_vars

\* The export under exp_from = x ended in its error branch while records
\* match the remaining filters.
C15_ExportFailed ==
    /\ resp.op = "download_faculty_excel"
    /\ resp.outcome = "error"
    /\ LoggedIn(resp.client)
    /\ resp.target.exp_from = <<"x">>
    /\ QueryRows(ExcelQuery(session[resp.client], WithoutBadBounds(resp.target))) # {}

(***************************************************************************)
(* Range specification: five stored records with overall experience 3, 6,  *)
(* 10, 10.9 and 11 are listed and exported under experience bounds.        *)
(***************************************************************************)
RangeForm(n, mail, e) ==
    [FormA EXCEPT !.employee_id = <<"e", n>>, !.name_ssc = <<mail>>, !.email = mail,
                  !.teaching_exp_pragati = e, !.overall_exp = e]

RangeFaculty ==
    {FacultyRow(1, RangeForm("0", "a", 300)), FacultyRow(2, RangeForm("1", "b", 600)),
     FacultyRow(3, RangeForm("5", "c", 1000)), FacultyRow(4, RangeForm("6", "e", 1090)),
     FacultyRow(5, RangeForm("9", "x", 1100))}

InitRange ==
    /\ \E role \in ListSeedRoles : users = SeededUsers(role)
    /\ faculty = RangeFaculty
    /\ pubs = EmptyPubs
    /\ nextId = [FreshIds EXCEPT !.users = 3, !.faculty = 6]
    /\ session = [c \in Clients |-> EmptySession]
    /\ resp = NoResponse
    /\ Quiescent

\* Query strings of the range requests: bounds 6 and 10, a search text and a
\* department, each given or not
RangeArgs ==
    [search : {<<>>, <<"a">>}, department : {<<>>, CSE}, designation : {<<>>},
     appointment_type : {<<>>}, exp_from : {<<>>, <<"6">>},
     exp_to : {<<>>, <<"1", "0">>}]

RangeList == \E args \in RangeArgs : faculty_list("c1", args)
RangeExport == \E args \in RangeArgs : download_faculty_excel("c1", args)

NextRange ==
    \/ LoginSeeded /\ Sequential
    \/ LogoutSeeded /\ Sequential
    \/ RangeList /\ Sequential
    \/ RangeExport /\ Sequential

SpecRange == InitRange /\ [][NextRange]_vars

\* The overall_exp values of the records a listing response carries
ReturnedExp(r) == {f.overall_exp : f \in {g \in faculty : g.id \in Returned(r)}}

\* C16: an export with exp_from = 6 and exp_to = 10 and no other filter, by
\* an actor who sees all records, over records with overall_exp 3, 6, 10,
\* 10.9 and 11 returns exactly the records with 6, 10 and 10.9.
C16_RangeSixToTen ==
    (/\ resp.op = "download_faculty_excel"
     /\ resp.outcome = "ok"
     /\ resp.target = [search |-> <<>>, department |-> <<>>, designation |-> <<>>,
                       appointment_type |-> <<>>, exp_from |-> <<"6">>,
                       exp_to |-> <<"1", "0">>]
     /\ LoggedIn(resp.client)
     /\ get_user_role(session[resp.client]) \in {"IQAC", "Office"})
        => ReturnedExp(resp) = {600, 1000, 1090}

\* The export with bounds 6 and 10 returned the records with 6 and 10 only.
C16_TenPointNineLeftOut ==
    /\ resp.op = "download_faculty_excel"
    /\ resp.outcome = "ok"
    /\ resp.target.exp_from = <<"6">>
    /\ resp.target.exp_to = <<"1", "0">>
    /\ resp.target.search = <<>>
    /\ resp.target.department = <<>>
    /\ LoggedIn(resp.client)
    /\ get_user_role(session[resp.client]) = "IQAC"
    /\ ReturnedExp(resp) = {600, 1000}

(***************************************************************************)
(* Role specification: the first user is stored under any role token and   *)
(* asks for the pages that resolve the role.                               *)
(***************************************************************************)
InitRoles ==
    /\ \E role \in RoleTokens : users = SeededUsers(role)
    /\ faculty = {}
    /\ pubs = EmptyPubs
    /\ nextId = [FreshIds EXCEPT !.users = 3]
    /\ session = [c \in Clients |-> EmptySession]
    /\ resp = NoResponse
    /\ Quiescent

NextRoles ==
    \/ LoginSeeded /\ Sequential
    \/ LogoutSeeded /\ Sequential
    \/ ManageUsers /\ Sequential
    \/ ApproveUsers /\ Sequential

SpecRoles == InitRoles /\ [][NextRoles]_vars

\* The mapping of stored tokens the resolver is to implement
CanonicalOf(token) ==
    CASE token \in {"admin", "Admin", "IQAC(admin)"} -> "IQAC"
      [] token \in {"editor", "Editor"} -> "Office"
      [] token \in {"viewer", "Viewer"} -> "Faculty"
      [] OTHER -> token

\* C17: for the role token of every session, get_user_role gives IQAC for
\* admin, Admin and IQAC(admin), Office for editor and Editor, Faculty for
\* viewer and Viewer and the token itself otherwise; resolving the result
\* again gives the same role; and a request that resolves the role (one that
\* is answered by a user-management page) leaves the session as it was.
C17_RoleResolver ==
    /\ [](\A c \in Clients :
             LoggedIn(c) =>
                 LET role == get_user_role(session[c])
                 IN  /\ role = CanonicalOf(session[c].role)
                     /\ get_user_role([session[c] EXCEPT !.role = role]) = role)
    /\ [][resp'.op \in {"manage_users", "approve_users"} => session' = session]_vars

\* A user stored under the token Admin was served the user-management page.
C17_Witness ==
    /\ resp.op = "manage_users"
    /\ resp.outcome = "ok"
    /\ session[resp.client].role = "Admin"

(***************************************************************************)
(* Dashboard                                                               *)
(***************************************************************************)
\* The three bucket counts index computes over a non-empty faculty_data
ExperienceCounts(faculty_data) ==
    [count_0_5 |-> Cardinality({f \in faculty_data : f.overall_exp <= 590}),
     count_6_10 |-> Cardinality({f \in faculty_data :
                                    600 <= f.overall_exp /\ f.overall_exp <= 1090}),
     count_10_plus |-> Cardinality({f \in faculty_data : f.overall_exp > 1090})]

\* utils.get_experience_stats, which index calls on an empty faculty_data:
\* the bucket counts of the classifier
get_experience_stats(faculty_data) ==
    [count_0_5 |->
        Cardinality({f \in faculty_data : ExperienceCategory(f.overall_exp) = "0-5"}),
     count_6_10 |->
        Cardinality({f \in faculty_data : ExperienceCategory(f.overall_exp) = "6-10"}),
     count_10_plus |->
        Cardinality({f \in faculty_data : ExperienceCategory(f.overall_exp) = "10+"})]

NoPublicationCounts ==
    [journal_count |-> 0, conference_count |-> 0, book_chapter_count |-> 0,
     patent_count |-> 0, book_count |-> 0, total_publications |-> 0]

\* The publication counts of index with the role test left out
PublicationCounts_anyrole(user_role) ==
    [journal_count |-> Cardinality(pubs["journal"]),
     conference_count |-> Cardinality(pubs["conference"]),
     book_chapter_count |-> Cardinality(pubs["book_chapter"]),
     patent_count |-> Cardinality(pubs["patent"]),
     book_count |-> Cardinality({r.title : r \in pubs["book_chapter"]}),
     total_publications |->
         Cardinality(pubs["journal"]) + Cardinality(pubs["conference"])
             + Cardinality(pubs["book_chapter"]) + Cardinality(pubs["patent"])]

\* The publication counts of index: initialised to 0, computed only for IQAC
\* and Office
PublicationCounts(user_role) ==
    IF user_role \in {"IQAC", "Office"}
    THEN [journal_count |-> Cardinality(pubs["journal"]),
          conference_count |-> Cardinality(pubs["conference"]),
          book_chapter_count |-> Cardinality(pubs["book_chapter"]),
          patent_count |-> Cardinality(pubs["patent"]),
          book_count |-> Cardinality({r.title : r \in pubs["book_chapter"]}),
          total_publications |->
              Cardinality(pubs["journal"]) + Cardinality(pubs["conference"])
                  + Cardinality(pubs["book_chapter"]) + Cardinality(pubs["patent"])]
    ELSE NoPublicationCounts

\* GET /: the values handed to the template that the claims read (the ids of
\* faculty_data, the experience counts and the publication counts)
index(c) ==
    \/ LoginRedirect("index", c, 0)
    \/ /\ LoggedIn(c)
       /\ LET faculty_data ==
                  IF get_user_role(session[c]) \in {"Faculty"}
                  THEN {f \in faculty : f.email = session[c].email}
                  ELSE faculty
              experience_stats ==
                  IF faculty_data # {} THEN ExperienceCounts(faculty_data)
                  ELSE get_experience_stats(faculty_data)
          IN  resp' = Response("index", c, "ok", 0,
                         [faculty_data |-> Ids(faculty_data),
                          experience_stats |-> experience_stats,
                          publications |-> PublicationCounts(get_user_role(session[c]))])
       /\ UNCHANGED <<users, faculty, pubs, nextId, session>>

(***************************************************************************)
(* Dashboard specification: the dashboard is asked for over stored         *)
(* publication tables, or over stored faculty records with overall         *)
(* experience on and around the thresholds.                                *)
(***************************************************************************)
\* Publication rows of the two stored records; the two carry the same title
SeedPubRows ==
    {[id |-> 1, faculty_id |-> 1, title |-> "t1", year |-> 2020],
     [id |-> 2, faculty_id |-> 2, title |-> "t1", year |-> 2021]}

\* Faculty tables of up to two records, each with any of the experience values
ExpTables ==
    {one \cup two :
        one \in {{}} \cup {{FacultyRow(1, RangeForm("1", "a", e))} : e \in ExpValues},
        two \in {{}} \cup {{FacultyRow(2, RangeForm("6", "b", e))} : e \in ExpValues}}

InitDashboard ==
    /\ \E role \in SeedRoles : users = SeededUsers(role)
    /\ \/ /\ faculty = {FacultyRow(1, FormA), FacultyRow(2, FormB)}
          /\ \E p \in [Kinds -> SUBSET SeedPubRows] :
                 pubs = [k \in ChildTables |-> IF k \in Kinds THEN p[k] ELSE {}]
       \/ /\ faculty \in ExpTables
          /\ pubs = EmptyPubs
    /\ nextId = [users |-> 3, faculty |-> 3, journal |-> 3, conference |-> 3,
                 book_chapter |-> 3, patent |-> 3, qualification |-> 1]
    /\ session = [c \in Clients |-> EmptySession]
    /\ resp = NoResponse
    /\ Quiescent

Index == index("c1")

NextDashboard ==
    \/ LoginSeeded /\ Sequential
    \/ LogoutSeeded /\ Sequential
    \/ Index /\ Sequential

SpecDashboard == InitDashboard /\ [][NextDashboard]_vars

\* C18: on the dashboard an actor whose canonical role is not IQAC or Office
\* gets every publication aggregate as zero, whatever the tables hold; an
\* IQAC or Office actor gets the sizes of the four publication tables, and
\* their sum as the total.
C18_PublicationAggregatesByRole ==
    (resp.op = "index" /\ resp.outcome = "ok") =>
        LET got == resp.rows.publications
        IN  IF get_user_role(session[resp.client]) \in {"IQAC", "Office"}
            THEN /\ got.journal_count = Cardinality(pubs["journal"])
                 /\ got.conference_count = Cardinality(pubs["conference"])
                 /\ got.book_chapter_count = Cardinality(pubs["book_chapter"])
                 /\ got.patent_count = Cardinality(pubs["patent"])
                 /\ got.total_publications =
                        got.journal_count + got.conference_count
                            + got.book_chapter_count + got.patent_count
            ELSE \A k \in DOMAIN got : got[k] = 0

\* A Faculty actor got zero aggregates while publication rows are stored.
C18_Witness ==
    /\ resp.op = "index"
    /\ resp.outcome = "ok"
    /\ get_user_role(session[resp.client]) = "Faculty"
    /\ pubs["journal"] # {}
    /\ pubs["patent"] # {}
    /\ resp.rows.publications.total_publications = 0

\* The records index reads into faculty_data for the session of the last
\* response
DashboardSet ==
    {f \in faculty : f.id \in resp.rows.faculty_data}

\* C19: every record of the set given to the dashboard statistics is counted
\* in exactly one experience bucket, the one the classifier (and the stored
\* experience_category) gives its overall_exp: each bucket count is the
\* number of records of that category, and the counts sum to the set's size.
C19_BucketsPartitionTheSet ==
    (resp.op = "index" /\ resp.outcome = "ok") =>
        LET got == resp.rows.experience_stats
            of(cat) == Cardinality({f \in DashboardSet :
                                       /\ ExperienceCategory(f.overall_exp) = cat
                                       /\ f.experience_category = cat})
        IN  /\ got.count_0_5 = of("0-5")
            /\ got.count_6_10 = of("6-10")
            /\ got.count_10_plus = of("10+")
            /\ got.count_0_5 + got.count_6_10 + got.count_10_plus
                   = Cardinality(DashboardSet)

\* The dashboard counted a stored record with 5.91 years in no bucket.
C19_RecordInNoBucket ==
    /\ resp.op = "index"
    /\ resp.outcome = "ok"
    /\ \E f \in DashboardSet : f.overall_exp = 591 /\ f.experience_category = "6-10"
    /\ resp.rows.experience_stats.count_0_5 + resp.rows.experience_stats.count_6_10
           + resp.rows.experience_stats.count_10_plus < Cardinality(DashboardSet)

(***************************************************************************)
(* Qualifications and the deletion of a faculty record that has dependents *)
(***************************************************************************)
\* POST /add_qualification/<faculty_id>.  No role or ownership test precedes
\* the INSERT; the store refuses a row whose faculty_id names no faculty row
\* and the handler has no except clause.
add_qualification(c, faculty_id, form) ==
    \/ LoginRedirect("add_qualification", c, faculty_id)
    \/ /\ LoggedIn(c)
       /\ IF RowWith(faculty, faculty_id) = {}
          THEN /\ resp' = Response("add_qualification", c, "exception", faculty_id, {})
               /\ UNCHANGED <<pubs, nextId>>
          ELSE /\ nextId.qualification <= MaxQualId
               /\ pubs' = [pubs EXCEPT !["qualification"] = @ \cup
                              {[id |-> nextId.qualification, faculty_id |-> faculty_id,
                                qualification_type |-> form.qualification_type,
                                institution_name |-> form.institution_name]}]
               /\ nextId' = [nextId EXCEPT !.qualification = @ + 1]
               /\ resp' = Response("add_qualification", c, "ok", faculty_id, {})
       /\ UNCHANGED <<users, faculty, session>>

\* GET /delete_qualification/<qualification_id>.  The handler subscripts the
\* row it has read before it deletes: a missing row raises.
delete_qualification(c, qualification_id) ==
    \/ LoginRedirect("delete_qualification", c, qualification_id)
    \/ /\ LoggedIn(c)
       /\ LET found == RowWith(pubs["qualification"], qualification_id)
          IN  IF found = {}
              THEN /\ resp' = Response("delete_qualification", c, "exception",
                                       qualification_id, {})
                   /\ pubs' = pubs
              ELSE /\ pubs' = [pubs EXCEPT !["qualification"] = @ \ found]
                   /\ resp' = Response("delete_qualification", c, "ok",
                                       qualification_id, {})
       /\ UNCHANGED <<users, faculty, nextId, session>>

\* Inputs of the qualification requests
QualForms ==
    {[qualification_type |-> t, institution_name |-> "JNTUK"] : t \in {"PhD", "MTech"}}
QualIds == 1 .. (MaxQualId + 1)

\* Two faculty records are stored, no dependent row yet
InitDependents ==
    /\ \E role \in SeedRoles : users = SeededUsers(role)
    /\ faculty = {FacultyRow(1, FormA), FacultyRow(2, FormB)}
    /\ pubs = EmptyPubs
    /\ nextId = [FreshIds EXCEPT !.users = 3, !.faculty = 3]
    /\ session = [c \in Clients |-> EmptySession]
    /\ resp = NoResponse
    /\ Quiescent

AddQualification == \E f \in PubTargets, form \in QualForms :
                       add_qualification("c1", f, form)
DeleteQualification == \E i \in QualIds : delete_qualification("c1", i)

NextDependents ==
    \/ LoginSeeded /\ Sequential
    \/ LogoutSeeded /\ Sequential
    \/ AddQualification /\ Sequential
    \/ DeleteQualification /\ Sequential
    \/ AddJournal /\ Sequential
    \/ DeleteJournal /\ Sequential
    \/ DeleteFaculty /\ Sequential

SpecDependents == InitDependents /\ [][NextDependents]_vars

\* C20: a delete_faculty request on a stored faculty record that still has a
\* dependent qualification or publication row is answered with the
\* dependency outcome (not the generic database error), and the faculty
\* record and every dependent row are still stored afterwards.
C20_DependentsBlockDelete ==
    [][(/\ resp'.op = "delete_faculty"
        /\ LoggedIn(resp'.client)
        /\ RowWith(faculty, resp'.target) # {}
        /\ HasDependents(resp'.target))
       => (/\ resp'.outcome = "dependency"
           /\ faculty' = faculty
           /\ pubs' = pubs)]_vars

\* A delete_faculty request was refused for a record that a qualification row
\* points to, and both are still stored.
C20_Witness ==
    /\ resp.op = "delete_faculty"
    /\ resp.outcome = "dependency"
    /\ RowWith(faculty, resp.target) # {}
    /\ \E q \in pubs["qualification"] : q.faculty_id = resp.target

(***************************************************************************)
(* Duplicate employee ids and emails under sequential requests             *)
(***************************************************************************)
\* Forms that collide with FormA on the employee id only and on the email only
FormSameEmployee == [FormC EXCEPT !.employee_id = FormA.employee_id]
FormSameEmail == [FormC EXCEPT !.email = FormA.email]
DupForms == {FormA, FormB, FormSameEmployee, FormSameEmail}

InitDuplicates ==
    /\ users = SeededUsers("IQAC")
    /\ faculty = {}
    /\ pubs = EmptyPubs
    /\ nextId = [FreshIds EXCEPT !.users = 3]
    /\ session = [c \in Clients |-> EmptySession]
    /\ resp = NoResponse
    /\ Quiescent

AddDupFaculty == \E form \in DupForms : add_faculty("c1", form)
EditDupFaculty == \E i \in FacultyIds, form \in DupForms :
                     edit_faculty("c1", i, "POST", form)

NextDuplicates ==
    \/ LoginSeeded /\ Sequential
    \/ LogoutSeeded /\ Sequential
    \/ AddDupFaculty /\ Sequential
    \/ EditDupFaculty /\ Sequential
    \/ DeleteFaculty /\ Sequential

SpecDuplicates == InitDuplicates /\ [][NextDuplicates]_vars

\* A stored row other than the one with this id has the form's employee id or
\* its email
Collides(form, id) ==
    \E f \in faculty :
        f.id # id /\ (f.employee_id = form.employee_id \/ f.email = form.email)

NoSharedKeys ==
    \A f \in faculty, g \in faculty :
        f.id # g.id => f.employee_id # g.employee_id /\ f.email # g.email

\* C21: an add_faculty whose employee id or email is that of a stored row, and
\* an edit_faculty whose employee id or email is that of another stored row,
\* is answered with the duplicate outcome and leaves the faculty table as it
\* was; no two stored rows ever share an employee id or an email.
C21_DuplicatesRejected ==
    /\ []NoSharedKeys
    /\ [][\A form \in DupForms :
             /\ (LoggedIn("c1") /\ Collides(form, 0) /\ add_faculty("c1", form))
                   => (resp'.outcome = "duplicate" /\ faculty' = faculty)
             /\ \A i \in FacultyIds :
                  (/\ LoggedIn("c1")
                   /\ Collides(form, i)
                   /\ edit_faculty("c1", i, "POST", form))
                   => (resp'.outcome = "duplicate" /\ faculty' = faculty)]_vars

\* An edit that would give the second record the first one's email was
\* answered as a duplicate, and both records are stored.
C21_Witness ==
    /\ resp.op = "edit_faculty"
    /\ resp.outcome = "duplicate"
    /\ Cardinality(faculty) = 2
    /\ \E f \in faculty : f.id = resp.target /\ f.email # FormA.email

(***************************************************************************)
(* Editing a qualification; repeated edit submissions                      *)
(***************************************************************************)
\* edit_qualification with an INSERT of the submitted values in place of its
\* UPDATE
edit_qualification_insert(c, qualification_id, method, form) ==
    \/ LoginRedirect("edit_qualification", c, qualification_id)
    \/ /\ LoggedIn(c)
       /\ LET found == RowWith(pubs["qualification"], qualification_id)
          IN  IF found = {}
              THEN /\ resp' = Response("edit_qualification", c, "not_found",
                                       qualification_id, {})
                   /\ UNCHANGED <<pubs, nextId>>
              ELSE IF method = "GET"
              THEN /\ resp' = Response("edit_qualification", c, "form",
                                       qualification_id, {qualification_id})
                   /\ UNCHANGED <<pubs, nextId>>
              ELSE /\ nextId.qualification <= MaxQualId + 2
                   /\ pubs' = [pubs EXCEPT !["qualification"] = @ \cup
                                 {[r EXCEPT !.id = nextId.qualification,
                                     !.qualification_type = form.qualification_type,
                                     !.institution_name = form.institution_name]
                                    : r \in found}]
                   /\ nextId' = [nextId EXCEPT !.qualification = @ + 1]
                   /\ resp' = Response("edit_qualification", c, "ok",
                                       qualification_id, {})
       /\ UNCHANGED <<users, faculty, session>>

\* GET, POST /edit_qualification/<qualification_id>.  No role or ownership
\* test precedes the UPDATE; a missing row is answered with a redirect to
\* /faculty.
edit_qualification(c, qualification_id, method, form) ==
    \/ LoginRedirect("edit_qualification", c, qualification_id)
    \/ /\ LoggedIn(c)
       /\ LET found == RowWith(pubs["qualification"], qualification_id)
          IN  IF found = {}
              THEN /\ resp' = Response("edit_qualification", c, "not_found",
                                       qualification_id, {})
                   /\ pubs' = pubs
              ELSE IF method = "GET"
              THEN /\ resp' = Response("edit_qualification", c, "form",
                                       qualification_id, {qualification_id})
                   /\ pubs' = pubs
              ELSE /\ pubs' = [pubs EXCEPT !["qualification"] =
                                 (@ \ found) \cup
                                 {[r EXCEPT
                                     !.qualification_type = form.qualification_type,
                                     !.institution_name = form.institution_name]
                                    : r \in found}]
                   /\ resp' = Response("edit_qualification", c, "ok",
                                       qualification_id, {})
       /\ UNCHANGED <<users, faculty, nextId, session>>

\* One row in the qualifications table and in each publication table, all of
\* the first faculty record
SeedQualification ==
    [id |-> 1, faculty_id |-> 1, qualification_type |-> "MTech",
     institution_name |-> "JNTUK"]

InitEdits ==
    /\ \E role \in SeedRoles : users = SeededUsers(role)
    /\ faculty = {FacultyRow(1, FormA), FacultyRow(2, FormB)}
    /\ pubs = [k \in ChildTables |->
                 IF k = "qualification" THEN {SeedQualification}
                 ELSE RowWith(SeedPubRows, 1)]
    /\ nextId = [users |-> 3, faculty |-> 3, journal |-> 2, conference |-> 2,
                 book_chapter |-> 2, patent |-> 2, qualification |-> 2]
    /\ session = [c \in Clients |-> EmptySession]
    /\ resp = NoResponse
    /\ Quiescent

\* The form a browser submits to an edit route is the one it submitted to that
\* route before: one form for each route and record id
ResubmittedFaculty(id) == IF id = 2 THEN FormB2 ELSE FormC
ResubmittedQualification == [qualification_type |-> "PhD", institution_name |-> "JNTUK"]
ResubmittedPublication == [title |-> "t2", year |-> "2021"]

NextEdits ==
    \/ LoginSeeded /\ Sequential
    \/ LogoutSeeded /\ Sequential
    \/ \E i \in FacultyIds : edit_faculty("c1", i, "POST", ResubmittedFaculty(i))
          /\ Sequential
    \/ \E i \in QualIds : edit_qualification("c1", i, "POST", ResubmittedQualification)
          /\ Sequential
    \/ \E i \in PubIds : edit_journal("c1", i, "POST", ResubmittedPublication)
          /\ Sequential
    \/ \E i \in PubIds : edit_conference("c1", i, "POST", ResubmittedPublication)
          /\ Sequential
    \/ \E i \in PubIds : edit_book_chapter("c1", i, "POST", ResubmittedPublication)
          /\ Sequential
    \/ \E i \in PubIds : edit_patent("c1", i, "POST", ResubmittedPublication)
          /\ Sequential

SpecEdits == InitEdits /\ [][NextEdits]_vars

EditOps ==
    {"edit_faculty", "edit_qualification", "edit_journal", "edit_conference",
     "edit_book_chapter", "edit_patent"}

\* C22: when an edit form is submitted a second time in a row for the same
\* record id (under SpecEdits a route is always sent the same form for a
\* record id, so the same route and id twice in a row is the same submission
\* twice), the second submission leaves every table as the first one left it.
C22_EditTwiceSameAsOnce ==
    [][(/\ resp.op \in EditOps
        /\ resp.outcome = "ok"
        /\ resp'.op = resp.op
        /\ resp'.target = resp.target
        /\ resp'.client = resp.client
        /\ LoggedIn(resp.client))
       => (/\ resp'.outcome = "ok"
           /\ faculty' = faculty
           /\ pubs' = pubs
           /\ nextId' = nextId
           /\ users' = users)]_vars

\* A qualification edit has changed the stored row and was answered as a
\* success; the same edit can be submitted again.
C22_Witness ==
    /\ resp.op = "edit_qualification"
    /\ resp.outcome = "ok"
    /\ \E q \in pubs["qualification"] :
          q.id = resp.target /\ q.qualification_type = "PhD"
    /\ \E f \in faculty : f.id = 1 /\ f.email = FormC.email
    /\ \E j \in pubs["journal"] : j.title = "t2"

(***************************************************************************)
(* Requests that name a record that is not stored                          *)
(***************************************************************************)
\* The record a request of SpecDependents names by its id is not stored
TargetMissing(r) ==
    CASE r.op \in {"delete_faculty", "add_qualification", "add_journal_publication"}
             -> RowWith(faculty, r.target) = {}
      [] r.op = "delete_qualification" -> RowWith(pubs["qualification"], r.target) = {}
      [] r.op = "delete_journal" -> RowWith(pubs["journal"], r.target) = {}
      [] OTHER -> FALSE

\* C23: a request by a logged-in actor that names a record id which is not
\* stored is answered with the not-found outcome, and no table changes.
C23_MissingRecordReported ==
    [][(LoggedIn(resp'.client) /\ TargetMissing(resp'))
       => (/\ resp'.outcome = "not_found"
           /\ faculty' = faculty
           /\ pubs' = pubs)]_vars

\* delete_qualification was asked for an id that is not stored and raised
C23_DeleteMissingQualificationRaised ==
    /\ resp.op = "delete_qualification"
    /\ LoggedIn(resp.client)
    /\ RowWith(pubs["qualification"], resp.target) = {}
    /\ resp.outcome = "exception"

(***************************************************************************)
(* Spreadsheet exports of publications                                     *)
(***************************************************************************)
\* A worksheet: its title, whether row 1 holds the column headers, the ids of
\* the records written as data rows, and whether a cell states that no data
\* was found
Sheet(title, header, data, message) ==
    [title |-> title, header |-> header, data |-> data, message |-> message]

\* GET /download_journals/<faculty_id>: the header row and one row for each
\* journal row joined with its faculty row; nothing else is written.
download_journals(c, faculty_id) ==
    \/ LoginRedirect("download_journals", c, faculty_id)
    \/ /\ LoggedIn(c)
       /\ LET journals == {j \in pubs["journal"] :
                              j.faculty_id = faculty_id /\ j.faculty_id \in Ids(faculty)}
          IN  resp' = Response("download_journals", c, "file", faculty_id,
                               {Sheet("Journal Publications", TRUE, Ids(journals), FALSE)})
       /\ UNCHANGED <<users, faculty, pubs, nextId, session>>

SheetTitle ==
    [journal |-> "Journal Publications", conference |-> "Conference Papers",
     book_chapter |-> "Book Chapters", patent |-> "Patents"]

\* GET /download_all_publications/<faculty_id>: one sheet for each type that
\* has rows, and a message sheet when none has.
download_all_publications(c, faculty_id) ==
    \/ LoginRedirect("download_all_publications", c, faculty_id)
    \/ /\ LoggedIn(c)
       /\ IF RowWith(faculty, faculty_id) = {}
          THEN resp' = Response("download_all_publications", c, "not_found",
                                faculty_id, {})
          ELSE LET of(k) == {p \in pubs[k] : p.faculty_id = faculty_id}
               IN  resp' = Response("download_all_publications", c, "file", faculty_id,
                       {Sheet(SheetTitle[k], TRUE, Ids(of(k)), FALSE) :
                            k \in {t \in Kinds : of(t) # {}}}
                       \cup (IF \A k \in Kinds : of(k) = {}
                             THEN {Sheet("No Publications", FALSE, {}, TRUE)}
                             ELSE {}))
       /\ UNCHANGED <<users, faculty, pubs, nextId, session>>

\* Two faculty records; each publication table holds any of the seeded rows
InitExports ==
    /\ \E role \in SeedRoles : users = SeededUsers(role)
    /\ faculty = {FacultyRow(1, FormA), FacultyRow(2, FormB)}
    /\ \E p \in [Kinds -> SUBSET SeedPubRows] :
           pubs = [k \in ChildTables |-> IF k \in Kinds THEN p[k] ELSE {}]
    /\ nextId = [users |-> 3, faculty |-> 3, journal |-> 3, conference |-> 3,
                 book_chapter |-> 3, patent |-> 3, qualification |-> 1]
    /\ session = [c \in Clients |-> EmptySession]
    /\ resp = NoResponse
    /\ Quiescent

DownloadJournals == \E f \in PubTargets : download_journals("c1", f)
DownloadAllPublications == \E f \in PubTargets : download_all_publications("c1", f)

NextExports ==
    \/ LoginSeeded /\ Sequential
    \/ LogoutSeeded /\ Sequential
    \/ DownloadJournals /\ Sequential
    \/ DownloadAllPublications /\ Sequential

SpecExports == InitExports /\ [][NextExports]_vars

\* C24: every exported sheet whose record set is empty holds a cell stating
\* that no data was found; the combined export has one sheet for each
\* publication type that has rows and the explanatory sheet exactly when
\* all four types are empty.
C24_EmptyExportExplains ==
    (resp.op \in {"download_journals", "download_all_publications"}
       /\ resp.outcome = "file") =>
        /\ resp.rows # {}
        /\ \A s \in resp.rows : s.data = {} => s.message
        /\ resp.op = "download_all_publications" =>
             LET of(k) == {p \in pubs[k] : p.faculty_id = resp.target}
             IN  /\ {s.data : s \in {t \in resp.rows : ~t.message}}
                       = {Ids(of(k)) : k \in {t \in Kinds : of(t) # {}}}
                 /\ Cardinality({s \in resp.rows : ~s.message})
                       = Cardinality({k \in Kinds : of(k) # {}})
                 /\ (\E s \in resp.rows : s.message) <=> \A k \in Kinds : of(k) = {}

\* The journal export of a faculty record without journal rows holds the
\* header row only.
C24_HeaderOnlySheet ==
    /\ resp.op = "download_journals"
    /\ resp.outcome = "file"
    /\ RowWith(faculty, resp.target) # {}
    /\ \E s \in resp.rows : s.header /\ s.data = {} /\ ~s.message

(***************************************************************************)
(* Qualification requests by a Faculty actor                               *)
(***************************************************************************)
QualOps == {"add_qualification", "edit_qualification", "delete_qualification"}

\* The faculty ids whose qualifications a request is about: the id in the
\* route of add_qualification, the faculty_id of the row the other two name
QualificationFacultyIds(r) ==
    IF r.op = "add_qualification" THEN {r.target}
    ELSE {q.faculty_id : q \in RowWith(pubs["qualification"], r.target)}

\* C25: a qualification request by an actor whose canonical role is Faculty,
\* about a faculty record whose stored email is not the session email,
\* leaves the qualifications table unchanged.
C25_FacultyCannotChangeOthersQualifications ==
    [][(/\ resp'.op \in QualOps
        /\ LoggedIn(resp'.client)
        /\ get_user_role(session[resp'.client]) = "Faculty"
        /\ \E f \in faculty :
              /\ f.id \in QualificationFacultyIds(resp')
              /\ f.email # SessionEmail(session[resp'.client]))
       => pubs'["qualification"] = pubs["qualification"]]_vars

\* A Faculty actor has added a qualification row to another member's record
C25_AddedToAnothersRecord ==
    /\ resp.op = "add_qualification"
    /\ resp.outcome = "ok"
    /\ LoggedIn(resp.client)
    /\ get_user_role(session[resp.client]) = "Faculty"
    /\ \E f \in faculty :
          /\ f.id = resp.target
          /\ f.email # SessionEmail(session[resp.client])
          /\ \E q \in pubs["qualification"] : q.faculty_id = f.id

(***************************************************************************)
(* Two add_faculty requests in flight at the same time                     *)
(***************************************************************************)
\* UNIQUE keys of the faculty table on employee_id and on email: the store
\* refuses an INSERT whose employee_id or email a committed row holds
\* (error 1062).
UniqueKeyTaken(form) ==
    \E f \in faculty : f.employee_id = form.employee_id \/ f.email = form.email

\* The first part of POST /add_faculty: the two duplicate SELECTs, on a
\* connection that is closed before the form is processed further.  A request
\* that passes them is in flight until its INSERT.
add_faculty_check(c, form) ==
    /\ inflight[c] = NotInFlight
    /\ \/ LoginRedirect("add_faculty", c, 0) /\ inflight' = inflight
       \/ /\ LoggedIn(c)
          /\ IF \/ \E f \in faculty : f.employee_id = form.employee_id
                \/ \E f \in faculty : f.email = form.email
             THEN /\ resp' = Response("add_faculty", c, "duplicate", 0, {})
                  /\ inflight' = inflight
             ELSE /\ inflight' = [inflight EXCEPT ![c] = [pc |-> "insert", form |-> form]]
                  /\ resp' = resp
          /\ UNCHANGED <<users, faculty, pubs, nextId, session>>
    /\ conns' = conns

\* add_faculty_insert with every database error answered by the generic
\* message
add_faculty_insert_generic(c) ==
    /\ inflight[c] # NotInFlight
    /\ LET form == inflight[c].form
       IN  IF form.dob \notin ValidDates
           THEN /\ resp' = Response("add_faculty", c, "validation", 0, {})
                /\ UNCHANGED <<faculty, nextId>>
           ELSE IF NotANumber \in ExpFields(form)
           THEN /\ resp' = Response("add_faculty", c, "error", 0, {})
                /\ UNCHANGED <<faculty, nextId>>
           ELSE \/ /\ ExpMismatch(form) >= 10
                   /\ resp' = Response("add_faculty", c, "validation", 0, {})
                   /\ UNCHANGED <<faculty, nextId>>
                \/ /\ ExpMismatch(form) <= 10
                   /\ IF UniqueKeyTaken(form)
                      THEN /\ resp' = Response("add_faculty", c, "db_error", 0, {})
                           /\ UNCHANGED <<faculty, nextId>>
                      ELSE /\ nextId.faculty <= MaxFacultyId
                           /\ faculty' = faculty \cup {FacultyRow(nextId.faculty, form)}
                           /\ nextId' = [nextId EXCEPT !.faculty = @ + 1]
                           /\ resp' = Response("add_faculty", c, "ok",
                                               nextId.faculty, {})
    /\ inflight' = [inflight EXCEPT ![c] = NotInFlight]
    /\ UNCHANGED <<users, pubs, session, conns>>

\* The second part of POST /add_faculty: the validations and the INSERT on a
\* second connection.  The except clause answers error 1062 with the
\* duplicate-entry message after a rollback.
add_faculty_insert(c) ==
    /\ inflight[c] # NotInFlight
    /\ LET form == inflight[c].form
       IN  IF form.dob \notin ValidDates
           THEN /\ resp' = Response("add_faculty", c, "validation", 0, {})
                /\ UNCHANGED <<faculty, nextId>>
           ELSE IF NotANumber \in ExpFields(form)
           THEN /\ resp' = Response("add_faculty", c, "error", 0, {})
                /\ UNCHANGED <<faculty, nextId>>
           ELSE \/ /\ ExpMismatch(form) >= 10
                   /\ resp' = Response("add_faculty", c, "validation", 0, {})
                   /\ UNCHANGED <<faculty, nextId>>
                \/ /\ ExpMismatch(form) <= 10
                   /\ IF UniqueKeyTaken(form)
                      THEN /\ resp' = Response("add_faculty", c, "duplicate_entry", 0, {})
                           /\ UNCHANGED <<faculty, nextId>>
                      ELSE /\ nextId.faculty <= MaxFacultyId
                           /\ faculty' = faculty \cup {FacultyRow(nextId.faculty, form)}
                           /\ nextId' = [nextId EXCEPT !.faculty = @ + 1]
                           /\ resp' = Response("add_faculty", c, "ok",
                                               nextId.faculty, {})
    /\ inflight' = [inflight EXCEPT ![c] = NotInFlight]
    /\ UNCHANGED <<users, pubs, session, conns>>

\* Two browsers; the faculty table starts empty
InitRace ==
    /\ users = SeededUsers("IQAC")
    /\ faculty = {}
    /\ pubs = EmptyPubs
    /\ nextId = [FreshIds EXCEPT !.users = 3]
    /\ session = [c \in Clients |-> EmptySession]
    /\ resp = NoResponse
    /\ Quiescent

AddFacultyCheck == \E c \in Clients, form \in DupForms : add_faculty_check(c, form)
AddFacultyInsert == \E c \in Clients : add_faculty_insert(c)

NextRace ==
    \/ Login /\ Sequential
    \/ AddFacultyCheck
    \/ AddFacultyInsert

SpecRace == InitRace /\ [][NextRace]_vars

\* C26: whatever the interleaving of the check steps and the insert steps of
\* two add_faculty requests, no two stored rows share an employee id or an
\* email, and an insert step whose employee id or email a stored row holds
\* ends in the duplicate-entry error with no row added.
C26_RaceLeavesOneRow ==
    /\ []NoSharedKeys
    /\ [][\A c \in Clients :
             (/\ inflight[c] # NotInFlight
              /\ inflight'[c] = NotInFlight
              /\ Collides(inflight[c].form, 0))
             => (/\ resp' = Response("add_faculty", c, "duplicate_entry", 0, {})
                 /\ faculty' = faculty
                 /\ nextId' = nextId)]_vars

\* Both requests have passed the duplicate check; one row with the key is
\* stored and the other request was answered with the duplicate-entry error.
C26_Witness ==
    /\ resp.op = "add_faculty"
    /\ resp.outcome = "duplicate_entry"
    /\ inflight = [c \in Clients |-> NotInFlight]
    /\ Cardinality({f \in faculty : f.employee_id = FormA.employee_id}) = 1

(***************************************************************************)
(* Connections a request leaves open                                       *)
(***************************************************************************)
\* The connections a handler has opened and not closed when it returns the
\* response r.  delete_faculty, delete_journal and edit_qualification return
\* their not-found redirect, and delete_journal its access-denied redirect,
\* before the close() calls; their other paths close what they opened.
Unreleased(r) ==
    IF \/ /\ r.op \in {"delete_faculty", "delete_journal", "edit_qualification"}
          /\ r.outcome = "not_found"
       \/ r.op = "delete_journal" /\ r.outcome = "denied"
    THEN 1 ELSE 0

\* The request of this step is run in one step and its connections are followed
ConnectionsFollowed ==
    /\ conns + Unreleased(resp') <= MaxOpenConns
    /\ conns' = conns + Unreleased(resp')
    /\ inflight' = inflight

NextConnections ==
    \/ LoginSeeded /\ ConnectionsFollowed
    \/ LogoutSeeded /\ ConnectionsFollowed
    \/ DeleteFaculty /\ ConnectionsFollowed
    \/ DeleteJournal /\ ConnectionsFollowed
    \/ \E i \in QualIds : edit_qualification("c1", i, "GET", ResubmittedQualification)
          /\ ConnectionsFollowed

SpecConnections == InitEdits /\ [][NextConnections]_vars

\* C27: whenever no request is in flight, no connection is open.
C27_NoConnectionLeftOpen ==
    inflight = [c \in Clients |-> NotInFlight] => conns = 0

\* delete_journal has answered not-found and its connection is still open
C27_NotFoundLeftConnectionOpen ==
    /\ resp.op = "delete_journal"
    /\ resp.outcome = "not_found"
    /\ inflight = [c \in Clients |-> NotInFlight]
    /\ conns > 0

(***************************************************************************)
(* Category pages: /department/<d>, /experience/<c>, /designation/<g>      *)
(***************************************************************************)
\* The stored experience categories as texts
ExpCategoryText ==
    [c \in {"0-5", "6-10", "10+"} |->
        IF c = "0-5" THEN <<"0", "-", "5">>
        ELSE IF c = "6-10" THEN <<"6", "-", "1", "0">>
        ELSE <<"1", "0", "+">>]

\* The value of the column a category page selects by
CategoryValue(f, column) ==
    IF column = "department" THEN f.department
    ELSE IF column = "designation" THEN f.designation
    ELSE ExpCategoryText[f.experience_category]

CategoryColumn ==
    [department_details |-> "department", experience_details |-> "experience_category",
     designation_details |-> "designation"]
CategoryOps == DOMAIN CategoryColumn

\* The body of the three category handlers.  redirect(f'/<route>/{value}')
\* puts the stored value into the Location unchanged.
CategoryDetails(op, c, name) ==
    \/ /\ ~LoggedIn(c)
       /\ resp' = Response(op, c, "login_required", 0, [name |-> name])
    \/ /\ LoggedIn(c)
       /\ LET column == CategoryColumn[op]
              mine == {f \in faculty : f.email = SessionEmail(session[c])}
              here == {f \in faculty : CategoryValue(f, column) = name}
          IN  IF get_user_role(session[c]) = "Faculty" /\ mine \cap here = {}
              THEN IF mine # {}
                   THEN \E f \in mine :
                           resp' = Response(op, c, "redirect", 0,
                                            [route |-> op,
                                             location |-> CategoryValue(f, column)])
                   ELSE resp' = Response(op, c, "redirect", 0,
                                         [route |-> "faculty_list", location |-> <<>>])
              ELSE resp' = Response(op, c, "ok", 0,
                                    [name |-> name,
                                     ids |-> IF /\ op = "department_details"
                                                /\ get_user_role(session[c]) = "Faculty"
                                             THEN Ids(mine \cap here) ELSE Ids(here)])

department_details(c, department_name) ==
    /\ CategoryDetails("department_details", c, department_name)
    /\ UNCHANGED <<users, faculty, pubs, nextId, session>>

experience_details(c, experience_category) ==
    /\ CategoryDetails("experience_details", c, experience_category)
    /\ UNCHANGED <<users, faculty, pubs, nextId, session>>

designation_details(c, designation_name) ==
    /\ CategoryDetails("designation_details", c, designation_name)
    /\ UNCHANGED <<users, faculty, pubs, nextId, session>>

\* What the <name> converter of a route receives when the browser follows a
\* Location that ends in the given text: the text up to its first ? or #
\* (query and fragment are not part of the path); a path part that is empty
\* or holds a / matches no category route.
NoRoute == <<"<", "4", "0", "4", ">">>
PathPart(t) ==
    LET stops == {i \in 1 .. Len(t) : t[i] \in {"?", "#"}}
    IN  IF stops = {} THEN t
        ELSE SubSeq(t, 1, (CHOOSE i \in stops : \A j \in stops : i <= j) - 1)
RouteArgument(t) ==
    LET p == PathPart(t)
    IN  IF p = <<>> \/ \E i \in 1 .. Len(p) : p[i] = "/" THEN NoRoute ELSE p

\* The browser follows the redirect of a category handler
FollowRedirect(c) ==
    /\ resp.client = c
    /\ resp.op \in CategoryOps
    /\ resp.outcome = "redirect"
    /\ resp.rows.route \in CategoryOps
    /\ LET name == RouteArgument(resp.rows.location)
       IN  IF name = NoRoute
           THEN resp' = Response(resp.rows.route, c, "no_route", 0, [name |-> name])
           ELSE CategoryDetails(resp.rows.route, c, name)
    /\ UNCHANGED <<users, faculty, pubs, nextId, session>>

\* Records as add_faculty writes them: a department name with a slash and a
\* designation with a question mark among them
CSE_AIML == <<"C", "S", "E", "/", "A", "I">>
HeadQ == <<"H", "O", "D", "?">>
CategoryForms ==
    {FormA, [FormA EXCEPT !.department = CSE_AIML], [FormA EXCEPT !.designation = HeadQ]}

\* The first user is a Faculty or an IQAC account; the record with the
\* first user's email is stored or not
InitCategories ==
    /\ \E role \in {"Faculty", "viewer", "IQAC"} : users = SeededUsers(role)
    /\ \E linked \in {{FacultyRow(1, form)} : form \in CategoryForms} \cup {{}} :
           faculty = linked \cup {FacultyRow(2, FormB)}
    /\ pubs = EmptyPubs
    /\ nextId = [FreshIds EXCEPT !.users = 3, !.faculty = 3]
    /\ session = [c \in Clients |-> EmptySession]
    /\ resp = NoResponse
    /\ Quiescent

CategoryNames ==
    [department_details |-> {CSE, ECE, CSE_AIML},
     experience_details |-> {ExpCategoryText[x] : x \in DOMAIN ExpCategoryText},
     designation_details |-> {Professor, Assistant, HeadQ}]

DepartmentDetails ==
    \E d \in CategoryNames["department_details"] : department_details("c1", d)
ExperienceDetails ==
    \E x \in CategoryNames["experience_details"] : experience_details("c1", x)
DesignationDetails ==
    \E g \in CategoryNames["designation_details"] : designation_details("c1", g)

NextCategories ==
    \/ LoginSeeded /\ Sequential
    \/ LogoutSeeded /\ Sequential
    \/ DepartmentDetails /\ Sequential
    \/ ExperienceDetails /\ Sequential
    \/ DesignationDetails /\ Sequential
    \/ FollowRedirect("c1") /\ Sequential

SpecCategories == InitCategories /\ [][NextCategories]_vars

\* The stored records linked to the actor of the last request
LinkedRecords == {f \in faculty : f.email = SessionEmail(session[resp.client])}

\* C28: a category request by a Faculty actor that names a category other
\* than the one of the actor's linked record is answered by a redirect to the
\* actor's own category page, or to /faculty when no record is linked; and
\* when the browser follows the redirect to the own category page, that page
\* renders.
C28_OneRedirectThenPage ==
    /\ [](( /\ resp.op \in CategoryOps
            /\ resp.outcome \in {"ok", "redirect"}
            /\ get_user_role(session[resp.client]) = "Faculty")
          => IF resp.outcome = "ok"
             THEN \E f \in LinkedRecords :
                     CategoryValue(f, CategoryColumn[resp.op]) = resp.rows.name
             ELSE IF LinkedRecords = {}
             THEN resp.rows.route = "faculty_list"
             ELSE /\ resp.rows.route = resp.op
                  /\ \E f \in LinkedRecords :
                        resp.rows.location = CategoryValue(f, CategoryColumn[resp.op]))
    /\ [][(/\ get_user_role(session["c1"]) = "Faculty"
           /\ resp'.op \in CategoryOps
           /\ FollowRedirect("c1"))
          => resp'.outcome = "ok"]_vars

\* The browser has followed the redirect to the actor's own designation page
\* and was redirected again.
C28_RedirectedAgain ==
    /\ resp.op = "designation_details"
    /\ resp.outcome = "redirect"
    /\ get_user_role(session[resp.client]) = "Faculty"
    /\ \E f \in LinkedRecords :
          /\ f.designation = HeadQ
          /\ resp.rows.location = HeadQ

(***************************************************************************)
(* Session specification: two browsers, one of which can log in, send      *)
(* requests of every family with and without a logged-in session           *)
(***************************************************************************)
\* The routes registered without @login_required that touch the users table
\* or the session; "none" is the state before the first request
OpenRoutes == {"login", "logout", "register", "none"}

LogoutAny == \E c \in Clients : logout(c)
ViewFacultyAny == \E c \in Clients, i \in FacultyIds : view_faculty(c, i)
DeleteFacultyAny == \E c \in Clients, i \in FacultyIds : delete_faculty(c, i)
AddQualificationAny ==
    \E c \in Clients, f \in PubTargets, form \in QualForms : add_qualification(c, f, form)
ViewPublicationsAny == \E c \in Clients, f \in PubTargets : view_publications(c, f)
DeleteJournalAny == \E c \in Clients, i \in PubIds : delete_journal(c, i)

NextSessions ==
    \/ LoginSeeded /\ Sequential
    \/ LogoutAny /\ Sequential
    \/ ViewFacultyAny /\ Sequential
    \/ DeleteFacultyAny /\ Sequential
    \/ AddQualificationAny /\ Sequential
    \/ ViewPublicationsAny /\ Sequential
    \/ DeleteJournalAny /\ Sequential
    \/ ManageUsers /\ Sequential
    \/ DeleteUser /\ Sequential

SpecSessions == InitDependents /\ [][NextSessions]_vars

\* C29: a request to a handler of faculty, qualification, publication or
\* user-management data from a browser whose session lacks logged_in is
\* answered with the redirect to /login and touches neither the tables nor a
\* connection; logout leaves the session empty; and a session gains logged_in
\* only by a login that succeeds, so after logout every such request is
\* redirected until then.
C29_LoginGate ==
    /\ [][\A c \in Clients :
             (/\ resp'.client = c
              /\ resp'.op \notin OpenRoutes
              /\ ~session[c].logged_in)
             => /\ resp'.outcome = "login_required"
                /\ UNCHANGED <<users, faculty, pubs, nextId, session, conns>>]_vars
    /\ [][resp'.op = "logout" => session'[resp'.client] = EmptySession]_vars
    /\ [][\A c \in Clients :
             (~session[c].logged_in /\ session'[c].logged_in)
             => /\ resp'.op = "login"
                /\ resp'.client = c
                /\ resp'.outcome = "ok"]_vars

\* After a qualification was added in a logged-in session and the session was
\* cleared, a request to delete a faculty record was sent to /login
C29_Witness ==
    /\ resp.op = "delete_faculty"
    /\ resp.outcome = "login_required"
    /\ \A c \in Clients : ~session[c].logged_in
    /\ pubs["qualification"] # {}
    /\ faculty = {FacultyRow(1, FormA), FacultyRow(2, FormB)}

(***************************************************************************)
(* The worksheet of the roster export (checked under SpecList)             *)
(***************************************************************************)
\* The rows download_faculty_excel writes to the 'Faculty Data' sheet, top
\* down: the filter summary when any filter argument is non-empty, the export
\* line, a blank row, the header row and then one row per selected record (or
\* the no-data message); `a` is what the row holds in column A.
FacultySheet(args, faculty_data) ==
    LET filtered == \E k \in DOMAIN args : args[k] # <<>>
        filter_row == IF filtered THEN 1 ELSE 0
        export_row == 1 + filter_row
        header_start_row == export_row + 2
        top == (IF filtered THEN <<[row |-> 1, kind |-> "filter", a |-> "filter_info",
                                    id |-> 0]>>
                ELSE <<>>)
               \o <<[row |-> export_row, kind |-> "export", a |-> "Exported on",
                     id |-> 0],
                    [row |-> export_row + 1, kind |-> "blank", a |-> "", id |-> 0],
                    [row |-> header_start_row, kind |-> "header", a |-> "S.No",
                     id |-> 0]>>
        DataRow(i) ==
            LET current_row == header_start_row + i
            IN  [row |-> current_row, kind |-> "data",
                 a |-> current_row - header_start_row - 1, id |-> faculty_data[i]]
    IN  IF faculty_data # <<>>
        THEN top \o [i \in 1 .. Len(faculty_data) |-> DataRow(i)]
        ELSE Append(top, [row |-> header_start_row + 1, kind |-> "message",
                          a |-> "NO DATA FOUND", id |-> 0])

\* The data rows of a sheet, in row order
DataRows(sheet) == SelectSeq(sheet, LAMBDA r : r.kind = "data")

RosterExported == resp.op = "download_faculty_excel" /\ resp.outcome = "ok"

\* C30: in the roster export the S.No column numbers the n data rows
\* 1, 2, ..., n in row order, the rows being the selected records in name
\* order, with and without the filter-summary row.
C30_SerialNumbers ==
    RosterExported =>
        LET data == DataRows(FacultySheet(resp.target, resp.rows))
        IN  /\ Len(data) = Len(resp.rows)
            /\ \A i \in 1 .. Len(data) :
                   /\ data[i].id = resp.rows[i]
                   /\ data[i].a = i

\* An export of two records under a filter summary whose first data row is
\* numbered 0 and whose second is numbered 1
C30_NumberedFromZero ==
    /\ RosterExported
    /\ Len(resp.rows) = 2
    /\ LET sheet == FacultySheet(resp.target, resp.rows)
       IN  /\ sheet[1].kind = "filter"
           /\ DataRows(sheet)[1].a = 0
           /\ DataRows(sheet)[2].a = 1

====
